---- MODULE Spec2Model ----
(***************************************************************************)
(* A model of two parts of tcw3:                                           *)
(*   - the DPI-scale-aware bitmap cache of src/tcw3/src/ui/images/img.rs   *)
(*   - the layout engine of src/tcw3/src/uicore/layout.rs                  *)
(***************************************************************************)
EXTENDS Integers, Sequences, FiniteSets, TLC

(***************************************************************************)
(* Bounds of the model.                                                    *)
(***************************************************************************)
NumImgs == 2
MaxRef == 2

MaxHandles == 2

VARIABLES
    cache,      \* CACHE: the static Cache (imgs, bmps, dpi_scales)
    himg,       \* the HImg handles: Arc strong count and ImgCacheRef::img_ptr
    stack,      \* new_bmp calls whose Img::new_bmp callback has not returned
    prev,       \* per (image, scale): the bitmap the cache last handed out
    net,        \* per scale: dpi_scale_add_ref calls minus dpi_scale_release calls
    last,       \* the last cache operation, its arguments and what it returned
    panic,      \* the message of the panic that ended the program, or ""
    layout,     \* per view: View::layout (its subviews and its parameters)
    size_traits,    \* per view: View::size_traits
    frame,      \* per view: View::frame
    global_frame,   \* per view: View::global_frame
    dirty,      \* per view: View::dirty, a set of ViewDirtyFlags
    lop,        \* the last layout operation and what it was given
    flags,      \* per view: View::flags, a set of ViewFlags
    hit,        \* the last hit_test call: its arguments and what it returned
    dispatches, \* ON_UPDATE_DISPATCHES: the closures waiting for the next drain
    main_thread_tasks,  \* process_pending_invocations tasks enqueued by wm.invoke, not yet run
    mode,       \* what the main thread is executing
    running,    \* the closure the drain is executing, or None
    registered, \* per closure: the turn in which it was registered, 0 before
    ran,        \* per closure: the turn of the drain that ran it, 0 before
    turn,       \* the number of turns the main thread has started
    debug_assertions,   \* whether the build has debug assertions enabled
    ctx,        \* the last LayoutCtx call: its arguments and how it ended
    wnds,       \* per window: whether it is open, HWnd::dpi_scale and ListenerState::dpi_scale
    wnd_tasks   \* the dpi_scale_release closures given to wm.invoke, not yet run

cacheVars == <<cache, himg, stack, prev, net, last, panic>>

layoutVars == <<layout, size_traits, frame, global_frame, dirty, lop>>

hitVars == <<flags, hit>>

invVars == <<dispatches, main_thread_tasks, mode, running, registered, ran, turn>>

ctxVars == <<debug_assertions, ctx>>

wndVars == <<wnds, wnd_tasks>>

vars == <<cache, himg, stack, prev, net, last, panic,
          layout, size_traits, frame, global_frame, dirty, lop, flags, hit,
          dispatches, main_thread_tasks, mode, running, registered, ran, turn,
          debug_assertions, ctx, wnds, wnd_tasks>>

(***************************************************************************)
(* f32 values, by their IEEE 754 fields.                                   *)
(***************************************************************************)
F32(s, e, m) == [sign |-> s, exp |-> e, man |-> m]
F1_0 == F32(0, 127, 0)
F2_0 == F32(0, 128, 0)
F0_0 == F32(0, 0, 0)
FNaN == F32(0, 255, 4194304)
F4_0 == F32(0, 129, 0)

\* f32::is_finite
is_finite(x) == x.exp # 255

\* x > 0.0
gt_zero(x) == x.sign = 0 /\ ~(x.exp = 255 /\ x.man # 0) /\ ~(x.exp = 0 /\ x.man = 0)

\* A u32 is held as the 32-bit two's complement integer with the same bits.
\* f32::to_bits
to_bits(x) ==
    (IF x.sign = 1 THEN (-1073741824) + (-1073741824) ELSE 0) + x.exp * 8388608 + x.man

\* f32::from_bits
from_bits(b) ==
    LET low == IF b < 0 THEN (b + 1073741824) + 1073741824 ELSE b
    IN F32(IF b < 0 THEN 1 ELSE 0, (low \div 8388608) % 256, low % 8388608)

\* DpiScale::new: Ok(bits) or Err(OutOfRange)
DpiScale_new(x) ==
    IF is_finite(x) /\ gt_zero(x)
    THEN [ok |-> TRUE, bits |-> to_bits(x)]
    ELSE [ok |-> FALSE, bits |-> 0]

\* DpiScale::value
DpiScale_value(s) == from_bits(s)

\* The f32 values handed to new_bmp, and the DpiScale values of windows.
ScaleInputs == {F1_0, F2_0, F0_0}
DpiScales == {DpiScale_new(x).bits : x \in {y \in ScaleInputs : DpiScale_new(y).ok}}

(***************************************************************************)
(* iterpool::Pool and iterpool::intrusive_list, as the cache uses them.    *)
(* A pool is a function from its allocated pointers; a list is the         *)
(* sequence of its elements from `first` on.                               *)
(***************************************************************************)
None == 0

\* Pool::allocate: a pointer that is not allocated
PoolAllocate(pool) ==
    CHOOSE p \in 1..(Cardinality(DOMAIN pool) + 1) :
        p \notin DOMAIN pool /\ \A q \in 1..(p - 1) : q \in DOMAIN pool

PoolPut(pool, p, v) == [q \in DOMAIN pool \cup {p} |-> IF q = p THEN v ELSE pool[q]]

\* Pool::deallocate
PoolDeallocate(pool, p) == [q \in DOMAIN pool \ {p} |-> pool[q]]

\* ListAccessorMut::remove
ListRemove(list, p) == SelectSeq(list, LAMBDA q : q # p)

\* ListAccessorMut::push_back
ListPushBack(list, p) == Append(list, p)

EmptyCache == [imgs |-> <<>>, bmps |-> <<>>, dpi_scales |-> <<>>]

(***************************************************************************)
(* impl Cache                                                              *)
(***************************************************************************)
\* A faulty variant of dpi_scale_find that answers with the first scale of the list
dpi_scale_find_first(c, dpi_scale) ==
    IF c.dpi_scales = <<>> THEN None ELSE 1

\* Cache::dpi_scale_find: the index (CacheDpiScalePtr) or None
dpi_scale_find(c, dpi_scale) ==
    LET hits == {i \in 1..Len(c.dpi_scales) : c.dpi_scales[i].dpi_scale = dpi_scale}
    IN IF hits = {} THEN None ELSE CHOOSE i \in hits : \A j \in hits : i <= j

\* Cache::dpi_scale_add_ref
dpi_scale_add_ref(c, dpi_scale) ==
    LET hits == {i \in 1..Len(c.dpi_scales) : c.dpi_scales[i].dpi_scale = dpi_scale}
    IN IF hits # {}
       THEN LET i == CHOOSE i \in hits : \A j \in hits : i <= j
            IN [c EXCEPT !.dpi_scales[i].ref_count = @ + 1]
       ELSE [c EXCEPT !.dpi_scales =
                Append(@, [dpi_scale |-> dpi_scale, ref_count |-> 1, bmps |-> <<>>])]

\* Vec::swap_remove
swap_remove(v, i) ==
    [j \in 1..(Len(v) - 1) |-> IF j = i THEN v[Len(v)] ELSE v[j]]

\* The loop of dpi_scale_release over the scale's list: each CacheBmp is
\* removed from its CacheImg's list and deallocated.
RECURSIVE release_bmps(_, _)
release_bmps(c, list) ==
    IF list = <<>> THEN c
    ELSE LET bmp_ptr == Head(list)
             img_ptr == c.bmps[bmp_ptr].img
             c1 == [c EXCEPT !.imgs[img_ptr].bmps = ListRemove(@, bmp_ptr),
                             !.bmps = PoolDeallocate(@, bmp_ptr)]
         IN release_bmps(c1, Tail(list))

\* A faulty variant of dpi_scale_release that drops the scale at every release
dpi_scale_release_eager(c, dpi_scale) ==
    LET i == dpi_scale_find(c, dpi_scale)
        c2 == release_bmps(c, c.dpi_scales[i].bmps)
    IN [c2 EXCEPT !.dpi_scales = swap_remove(@, i)]

\* A faulty variant of dpi_scale_release that removes the last scale of the list
dpi_scale_release_pop(c, dpi_scale) ==
    LET i == dpi_scale_find(c, dpi_scale)
        c1 == [c EXCEPT !.dpi_scales[i].ref_count = @ - 1]
    IN IF c1.dpi_scales[i].ref_count > 0 THEN c1
       ELSE LET c2 == release_bmps(c1, c1.dpi_scales[i].bmps)
            IN [c2 EXCEPT !.dpi_scales = SubSeq(@, 1, Len(@) - 1)]

\* Cache::dpi_scale_release, for a scale dpi_scale_find finds (the caller
\* panics otherwise)
dpi_scale_release(c, dpi_scale) ==
    LET i == dpi_scale_find(c, dpi_scale)
        c1 == [c EXCEPT !.dpi_scales[i].ref_count = @ - 1]
    IN IF c1.dpi_scales[i].ref_count > 0 THEN c1
       ELSE LET c2 == release_bmps(c1, c1.dpi_scales[i].bmps)
            IN [c2 EXCEPT !.dpi_scales = swap_remove(@, i)]

\* Cache::img_add: the cache and the new PoolPtr
img_add(c) ==
    LET p == PoolAllocate(c.imgs)
    IN [cache |-> [c EXCEPT !.imgs = PoolPut(@, p, [bmps |-> <<>>])], ptr |-> p]

\* The loop of img_remove over the image's list: each CacheBmp is removed
\* from its CacheDpiScale's list and deallocated.
RECURSIVE remove_bmps(_, _)
remove_bmps(c, list) ==
    IF list = <<>> THEN c
    ELSE LET bmp_ptr == Head(list)
             dpi_scale == c.bmps[bmp_ptr].dpi_scale
             i == dpi_scale_find(c, dpi_scale)
             c1 == [c EXCEPT !.dpi_scales[i].bmps = ListRemove(@, bmp_ptr),
                             !.bmps = PoolDeallocate(@, bmp_ptr)]
         IN remove_bmps(c1, Tail(list))

img_remove_leak(c, img) == [c EXCEPT !.imgs = PoolDeallocate(@, img)]

\* Cache::img_remove
img_remove(c, img) ==
    LET c1 == remove_bmps(c, c.imgs[img].bmps)
    IN [c1 EXCEPT !.imgs = PoolDeallocate(@, img)]

\* The CacheBmp img_find_bmp finds: the first of the image's list with the
\* scale, or None
img_find_bmp_ptr(c, img, dpi_scale) ==
    LET list == c.imgs[img].bmps
        hits == {k \in 1..Len(list) : c.bmps[list[k]].dpi_scale = dpi_scale}
    IN IF hits = {} THEN None ELSE list[CHOOSE k \in hits : \A j \in hits : k <= j]

img_find_bmp_any_scale(c, img, dpi_scale) ==
    LET list == c.imgs[img].bmps
    IN IF list = <<>> THEN None ELSE list[1]

\* Cache::img_find_bmp, as the pointer of the CacheBmp whose bmp it returns
img_find_bmp(c, img, dpi_scale) == img_find_bmp_ptr(c, img, dpi_scale)

img_add_bmp_one_list(c, img, dpi_scale_ptr, bmp) ==
    LET bmp_ptr == PoolAllocate(c.bmps)
        entry == [img |-> img, dpi_scale |-> c.dpi_scales[dpi_scale_ptr].dpi_scale,
                  bmp |-> bmp]
    IN [c EXCEPT !.bmps = PoolPut(@, bmp_ptr, entry),
                 !.imgs[img].bmps = ListPushBack(@, bmp_ptr)]

img_add_bmp_scale_list(c, img, dpi_scale_ptr, bmp) ==
    LET bmp_ptr == PoolAllocate(c.bmps)
        entry == [img |-> img, dpi_scale |-> c.dpi_scales[dpi_scale_ptr].dpi_scale,
                  bmp |-> bmp]
    IN [c EXCEPT !.bmps = PoolPut(@, bmp_ptr, entry),
                 !.dpi_scales[dpi_scale_ptr].bmps = ListPushBack(@, bmp_ptr)]

\* Cache::img_add_bmp
img_add_bmp(c, img, dpi_scale_ptr, bmp) ==
    LET bmp_ptr == PoolAllocate(c.bmps)
        entry == [img |-> img, dpi_scale |-> c.dpi_scales[dpi_scale_ptr].dpi_scale,
                  bmp |-> bmp]
    IN [c EXCEPT !.bmps = PoolPut(@, bmp_ptr, entry),
                 !.dpi_scales[dpi_scale_ptr].bmps = ListPushBack(@, bmp_ptr),
                 !.imgs[img].bmps = ListPushBack(@, bmp_ptr)]

(***************************************************************************)
(* The image handles and the lookups.                                      *)
(***************************************************************************)
NoBmp == [src |-> 0, dpi |-> F0_0, serial |-> 0]
NoEntry == [img |-> None, dpi_scale |-> 0, bmp |-> NoBmp]
NoLast == [op |-> "", img |-> 0, dpi_scale |-> 0,
           x |-> F0_0,              \* new_bmp: the f32 scale it was given
           bmp |-> NoBmp,           \* new_bmp: the Bmp returned
           hit |-> FALSE,           \* new_bmp: img_find_bmp found it
           raster |-> FALSE,        \* new_bmp: Img::new_bmp was invoked
           entry |-> NoEntry,       \* new_bmp: the CacheBmp img_find_bmp found
           expected |-> NoBmp,      \* new_bmp: prev of the pair when it was called
           reg_begin |-> FALSE,     \* new_bmp, new_bmp_end: the scale was
                                    \* registered when new_bmp was called
           reg_end |-> FALSE,       \* new_bmp_end: ... when Img::new_bmp returned
           zero |-> FALSE,          \* release, drop: it was the last reference
           removed |-> 0,           \* release, drop: CacheBmps it had to remove
           wnd |-> 0]               \* window events: the window

Imgs == 1..NumImgs

\* A faulty variant of Borrowed that knows only the innermost new_bmp call
BorrowedInnermost ==
    IF stack = <<>> THEN {} ELSE {stack[Len(stack)].img}

\* A faulty variant of Borrowed: no cache_ref is ever seen as borrowed
BorrowedNone == {}

\* The images whose cache_ref is mutably borrowed
Borrowed == {stack[k].img : k \in 1..Len(stack)}

\* A faulty variant of CacheBorrowed: new_bmp keeps its borrow of CACHE
\* while Img::new_bmp runs
CacheBorrowedDuringCallback == stack # <<>>

\* Whether CACHE is mutably borrowed between two operations: never, new_bmp
\* drops its borrow before it calls Img::new_bmp and every other operation
\* drops it when it returns
CacheBorrowed == FALSE

\* The CacheBmps keyed by a scale, and those of an image
BmpsOfScale(c, s) == {p \in DOMAIN c.bmps : c.bmps[p].dpi_scale = s}
BmpsOfImg(c, img) == {p \in DOMAIN c.bmps : c.bmps[p].img = img}

\* Img::new_bmp of image i for scale x: a Bitmap that is none of the bitmaps
\* of the image still held somewhere
Rasterize(i, x) ==
    LET held == {cache.bmps[p].bmp : p \in DOMAIN cache.bmps}
                \cup {prev[j][s] : j \in Imgs, s \in DOMAIN prev[i]}
                \cup {last.bmp, last.expected}
        used == {b.serial : b \in {h \in held : h.src = i /\ h.dpi = x}}
    IN [src |-> i, dpi |-> x,
        serial |-> CHOOSE n \in 1..(Cardinality(used) + 1) :
                      n \notin used /\ \A m \in 1..(n - 1) : m \in used]

InitCache ==
    /\ cache = EmptyCache
    /\ himg = [i \in Imgs |-> [refs |-> 0, img_ptr |-> None]]
    /\ stack = <<>>
    /\ prev = [i \in Imgs |-> [s \in DpiScales |-> NoBmp]]
    /\ net = [s \in DpiScales |-> 0]
    /\ last = NoLast
    /\ panic = ""

\* HImg::new
HImgNew(i) ==
    /\ panic = ""
    /\ himg[i].refs = 0
    /\ himg' = [himg EXCEPT ![i] = [refs |-> 1, img_ptr |-> None]]
    /\ last' = [NoLast EXCEPT !.op = "new", !.img = i]
    /\ UNCHANGED <<cache, stack, prev, net, panic>>

\* A faulty variant of HImgDrop that removes the CacheImg at every drop
HImgDropEveryRef(i) ==
    /\ panic = ""
    /\ himg[i].refs >= 1
    /\ i \notin Borrowed
    /\ himg' = [himg EXCEPT ![i] = [refs |-> @.refs - 1, img_ptr |-> None]]
    /\ cache' = IF himg[i].img_ptr # None
                THEN img_remove(cache, himg[i].img_ptr)
                ELSE cache
    /\ prev' = [prev EXCEPT ![i] = [s \in DpiScales |-> NoBmp]]
    /\ last' = [NoLast EXCEPT !.op = "drop", !.img = i,
                              !.zero = (himg[i].refs = 1),
                              !.removed = IF himg[i].img_ptr = None THEN 0
                                          ELSE Len(cache.imgs[himg[i].img_ptr].bmps)]
    /\ UNCHANGED <<stack, net, panic>>

\* Dropping an HImg; the last one drops ImgInner and so ImgCacheRef, whose
\* drop calls img_remove. The handle a running new_bmp was called on lives.
HImgDrop(i) ==
    /\ panic = ""
    /\ himg[i].refs >= 1
    /\ himg[i].refs > 1 \/ i \notin Borrowed
    /\ IF himg[i].refs > 1
       THEN /\ himg' = [himg EXCEPT ![i].refs = @ - 1]
            /\ last' = [NoLast EXCEPT !.op = "drop", !.img = i]
            /\ UNCHANGED <<cache, prev>>
       ELSE /\ himg' = [himg EXCEPT ![i] = [refs |-> 0, img_ptr |-> None]]
            /\ cache' = IF himg[i].img_ptr # None
                        THEN img_remove(cache, himg[i].img_ptr)
                        ELSE cache
            /\ prev' = [prev EXCEPT ![i] = [s \in DpiScales |-> NoBmp]]
            /\ last' = [NoLast EXCEPT !.op = "drop", !.img = i, !.zero = TRUE,
                          !.removed = IF himg[i].img_ptr = None THEN 0
                                      ELSE Len(cache.imgs[himg[i].img_ptr].bmps)]
    /\ UNCHANGED <<stack, net, panic>>

\* Cache::dpi_scale_add_ref, as handle_new_wnd and the scale listener call it
DpiScaleAddRef(s) ==
    /\ panic = ""
    /\ net[s] < MaxRef
    /\ cache' = dpi_scale_add_ref(cache, s)
    /\ net' = [net EXCEPT ![s] = @ + 1]
    /\ last' = [NoLast EXCEPT !.op = "add_ref", !.dpi_scale = s]
    /\ UNCHANGED <<himg, stack, prev, panic>>

\* A faulty variant of DpiScaleRelease that does nothing for a scale it does
\* not find
DpiScaleReleaseSilent(s) ==
    /\ panic = ""
    /\ IF dpi_scale_find(cache, s) = None
       THEN /\ last' = [NoLast EXCEPT !.op = "release", !.dpi_scale = s]
            /\ UNCHANGED <<cache, net, prev, panic>>
       ELSE /\ cache' = dpi_scale_release(cache, s)
            /\ net' = [net EXCEPT ![s] = @ - 1]
            /\ prev' = IF net[s] = 1
                       THEN [i \in Imgs |-> [prev[i] EXCEPT ![s] = NoBmp]]
                       ELSE prev
            /\ last' = [NoLast EXCEPT !.op = "release", !.dpi_scale = s,
                          !.zero = (net[s] = 1),
                          !.removed = Cardinality(BmpsOfScale(cache, s))]
            /\ UNCHANGED panic
    /\ UNCHANGED <<himg, stack>>

\* Cache::dpi_scale_release
DpiScaleRelease(s) ==
    /\ panic = ""
    /\ IF dpi_scale_find(cache, s) = None
       THEN /\ panic' = "unknown DPI scale value"
            /\ last' = [NoLast EXCEPT !.op = "release", !.dpi_scale = s]
            /\ UNCHANGED <<cache, net, prev>>
       ELSE /\ cache' = dpi_scale_release(cache, s)
            /\ net' = [net EXCEPT ![s] = @ - 1]
            /\ prev' = IF net[s] = 1
                       THEN [i \in Imgs |-> [prev[i] EXCEPT ![s] = NoBmp]]
                       ELSE prev
            /\ last' = [NoLast EXCEPT !.op = "release", !.dpi_scale = s,
                          !.zero = (net[s] = 1),
                          !.removed = Cardinality(BmpsOfScale(cache, s))]
            /\ UNCHANGED panic
    /\ UNCHANGED <<himg, stack>>

\* HImg::new_bmp up to the call of Img::new_bmp: the borrow of cache_ref,
\* DpiScale::new, img_add on the first lookup, and the cache hit
NewBmpBegin(i, x) ==
    /\ panic = ""
    /\ himg[i].refs >= 1
    /\ IF i \in Borrowed
       THEN /\ panic' = "cannot call new_bmp recursively on the same image"
            /\ last' = [NoLast EXCEPT !.op = "new_bmp", !.img = i, !.x = x]
            /\ UNCHANGED <<cache, himg, stack, prev, net>>
       ELSE IF ~DpiScale_new(x).ok
       THEN /\ panic' = "called Result::unwrap() on an Err value: OutOfRange"
            /\ last' = [NoLast EXCEPT !.op = "new_bmp", !.img = i, !.x = x]
            /\ UNCHANGED <<cache, himg, stack, prev, net>>
       ELSE IF CacheBorrowed
       THEN /\ panic' = "already borrowed: BorrowMutError"
            /\ last' = [NoLast EXCEPT !.op = "new_bmp", !.img = i, !.x = x]
            /\ UNCHANGED <<cache, himg, stack, prev, net>>
       ELSE LET dpi_scale == DpiScale_new(x).bits
                added == IF himg[i].img_ptr = None
                         THEN img_add(cache)
                         ELSE [cache |-> cache, ptr |-> himg[i].img_ptr]
                img_ptr == added.ptr
                found == img_find_bmp(added.cache, img_ptr, dpi_scale)
                reg == net[dpi_scale] > 0
                call == [NoLast EXCEPT !.op = "new_bmp", !.img = i, !.x = x,
                                       !.dpi_scale = dpi_scale,
                                       !.expected = prev[i][dpi_scale],
                                       !.reg_begin = reg]
            IN /\ himg' = [himg EXCEPT ![i].img_ptr = img_ptr]
               /\ cache' = added.cache
               /\ IF found # None
                  THEN /\ last' = [call EXCEPT !.bmp = cache.bmps[found].bmp,
                                               !.hit = TRUE,
                                               !.entry = cache.bmps[found]]
                       /\ prev' = [prev EXCEPT ![i][dpi_scale] = cache.bmps[found].bmp]
                       /\ UNCHANGED stack
                  ELSE /\ last' = [call EXCEPT !.raster = TRUE]
                       /\ stack' = Append(stack,
                              [img |-> i, dpi_scale |-> dpi_scale, img_ptr |-> img_ptr,
                               reg_begin |-> reg])
                       /\ UNCHANGED prev
               /\ UNCHANGED <<net, panic>>

\* A faulty variant of NewBmpEnd that inserts the bitmap if the scale was
\* registered when the lookup began and is still found
NewBmpEndDecidedAtBegin ==
    /\ panic = ""
    /\ stack # <<>>
    /\ LET f == stack[Len(stack)]
           bmp == Rasterize(f.img, DpiScale_value(f.dpi_scale))
           dpi_scale_ptr == dpi_scale_find(cache, f.dpi_scale)
       IN /\ cache' = IF dpi_scale_ptr = None \/ ~f.reg_begin THEN cache
                      ELSE img_add_bmp(cache, f.img_ptr, dpi_scale_ptr, bmp)
          /\ prev' = IF net[f.dpi_scale] = 0 THEN prev
                     ELSE [prev EXCEPT ![f.img][f.dpi_scale] = bmp]
          /\ last' = [NoLast EXCEPT !.op = "new_bmp_end", !.img = f.img,
                                    !.dpi_scale = f.dpi_scale, !.bmp = bmp,
                                    !.reg_begin = f.reg_begin,
                                    !.reg_end = (net[f.dpi_scale] > 0)]
    /\ stack' = SubSeq(stack, 1, Len(stack) - 1)
    /\ UNCHANGED <<himg, net, panic>>

\* HImg::new_bmp from the return of Img::new_bmp on: dpi_scale_find, and
\* img_add_bmp if the scale is found
NewBmpEnd ==
    /\ panic = ""
    /\ stack # <<>>
    /\ LET f == stack[Len(stack)]
           bmp == Rasterize(f.img, DpiScale_value(f.dpi_scale))
           dpi_scale_ptr == dpi_scale_find(cache, f.dpi_scale)
       IN /\ cache' = IF dpi_scale_ptr = None THEN cache
                      ELSE img_add_bmp(cache, f.img_ptr, dpi_scale_ptr, bmp)
          /\ prev' = IF net[f.dpi_scale] = 0 THEN prev
                     ELSE [prev EXCEPT ![f.img][f.dpi_scale] = bmp]
          /\ last' = [NoLast EXCEPT !.op = "new_bmp_end", !.img = f.img,
                                    !.dpi_scale = f.dpi_scale, !.bmp = bmp,
                                    !.reg_begin = f.reg_begin,
                                    !.reg_end = (net[f.dpi_scale] > 0)]
    /\ stack' = SubSeq(stack, 1, Len(stack) - 1)
    /\ UNCHANGED <<himg, net, panic>>

\* HImg::clone: one more reference to the same ImgInner
HImgClone(i) ==
    /\ panic = ""
    /\ himg[i].refs >= 1
    /\ himg[i].refs < MaxHandles
    /\ himg' = [himg EXCEPT ![i].refs = @ + 1]
    /\ last' = [NoLast EXCEPT !.op = "clone", !.img = i]
    /\ UNCHANGED <<cache, stack, prev, net, panic>>

\* A faulty variant of NewBmpUncached that goes through the borrow of
\* cache_ref and creates the CacheImg
NewBmpUncachedWithCacheImg(i, x) ==
    /\ panic = ""
    /\ himg[i].refs >= 1
    /\ i \notin Borrowed
    /\ LET added == IF himg[i].img_ptr = None
                    THEN img_add(cache)
                    ELSE [cache |-> cache, ptr |-> himg[i].img_ptr]
       IN /\ cache' = added.cache
          /\ himg' = [himg EXCEPT ![i].img_ptr = added.ptr]
    /\ last' = [NoLast EXCEPT !.op = "new_bmp_uncached", !.img = i, !.x = x,
                              !.bmp = Rasterize(i, x), !.raster = TRUE]
    /\ UNCHANGED <<stack, prev, net, panic>>

\* HImg::new_bmp_uncached: Img::new_bmp(dpi_scale) and nothing else
NewBmpUncached(i, x) ==
    /\ panic = ""
    /\ himg[i].refs >= 1
    /\ last' = [NoLast EXCEPT !.op = "new_bmp_uncached", !.img = i, !.x = x,
                              !.bmp = Rasterize(i, x), !.raster = TRUE]
    /\ UNCHANGED <<cache, himg, stack, prev, net, panic>>

\* The operations on image handles
NextImg ==
    \/ \E i \in Imgs : HImgNew(i)
    \/ \E i \in Imgs : HImgClone(i)
    \/ \E i \in Imgs : HImgDrop(i)
    \/ \E i \in Imgs, x \in ScaleInputs : NewBmpBegin(i, x)
    \/ NewBmpEnd
    \/ \E i \in Imgs, x \in ScaleInputs : NewBmpUncached(i, x)

NextCache ==
    \/ \E i \in Imgs : HImgNew(i)
    \/ \E i \in Imgs : HImgDrop(i)
    \/ \E s \in DpiScales : DpiScaleAddRef(s)
    \/ \E s \in DpiScales : DpiScaleRelease(s)
    \/ \E i \in Imgs, x \in ScaleInputs : NewBmpBegin(i, x)
    \/ NewBmpEnd

(***************************************************************************)
(* The view tree of the layout engine.                                     *)
(***************************************************************************)
Views == 1..4
Root == 1

SIZE_TRAITS == "SIZE_TRAITS"
DESCENDANT_SIZE_TRAITS == "DESCENDANT_SIZE_TRAITS"
SUBVIEWS_FRAME == "SUBVIEWS_FRAME"
DESCENDANT_SUBVIEWS_FRAME == "DESCENDANT_SUBVIEWS_FRAME"
POSITION_EVENT == "POSITION_EVENT"
DESCENDANT_POSITION_EVENT == "DESCENDANT_POSITION_EVENT"

\* cgmath::Vector2 and cggeom::Box2 over the coordinates of the model
Vec2Add(a, b) == <<a[1] + b[1], a[2] + b[2]>>
Vec2Sub(a, b) == <<a[1] - b[1], a[2] - b[2]>>
Box2(min, max) == [min |-> min, max |-> max]
\* Box2::size
BoxSize(b) == Vec2Sub(b.max, b.min)
\* Box2::translate
BoxTranslate(b, v) == Box2(Vec2Add(b.min, v), Vec2Add(b.max, v))

\* The frames Layout::arrange hands to set_subview_frame
Frames ==
    {Box2(<<0, 0>>, <<0, 0>>), Box2(<<0, 0>>, <<1, 1>>), Box2(<<1, 2>>, <<2, 3>>)}
RootFrame == Box2(<<0, 0>>, <<2, 2>>)

\* Layout::subviews of a view
Subviews(lay, v) == lay[v].subviews

\* View::superview: the view whose layout lists v, or None
Superview(lay, v) ==
    LET ps == {q \in Views : \E k \in 1..Len(lay[q].subviews) : lay[q].subviews[k] = v}
    IN IF ps = {} THEN None ELSE CHOOSE q \in ps : TRUE

\* The superview, its superview, and so on
RECURSIVE Ancestors(_, _)
Ancestors(lay, v) ==
    LET q == Superview(lay, v)
    IN IF q = None THEN {} ELSE {q} \cup Ancestors(lay, q)

(***************************************************************************)
(* SizeTraits and the layouts of the model. A layout is its list of        *)
(* subviews, a kind and a parameter p; size_traits is a function of these  *)
(* and of the subviews' SizeTraits, as Layout::size_traits must be.        *)
(***************************************************************************)
INFINITY == 2147483647

\* SizeTraits::default
SizeTraitsDefault ==
    [min |-> <<0, 0>>, max |-> <<INFINITY, INFINITY>>, preferred |-> <<0, 0>>]

Max(a, b) == IF a >= b THEN a ELSE b

RECURSIVE SumX(_, _)
SumX(traits, subs) ==
    IF subs = <<>> THEN 0 ELSE traits[Head(subs)].min[1] + SumX(traits, Tail(subs))

RECURSIVE MaxX(_, _)
MaxX(traits, subs) ==
    IF subs = <<>> THEN 0 ELSE Max(traits[Head(subs)].min[1], MaxX(traits, Tail(subs)))

RECURSIVE MaxY(_, _)
MaxY(traits, subs) ==
    IF subs = <<>> THEN 0 ELSE Max(traits[Head(subs)].min[2], MaxY(traits, Tail(subs)))

\* Layout::size_traits of the layout l, given the SizeTraits of all views
\* (it reads those of its subviews, through LayoutCtx::subview_size_traits):
\* "row" puts the subviews side by side with a padding p, "overlay" puts
\* them on top of each other in a box of at least p.
Layout_size_traits(l, traits) ==
    LET w == IF l.kind = "row" THEN SumX(traits, l.subviews) + l.p
             ELSE Max(MaxX(traits, l.subviews), l.p)
        h == MaxY(traits, l.subviews) + (IF l.kind = "row" THEN 0 ELSE l.p)
    IN [min |-> <<w, h>>, max |-> <<INFINITY, INFINITY>>, preferred |-> <<w, h>>]

LayoutKinds == {"row", "overlay"}
LayoutParams == {0, 1}

InitialLayout ==
    [v \in Views |->
        [subviews |-> (CASE v = 1 -> <<2, 3>> [] v = 2 -> <<4>> [] OTHER -> <<>>),
         kind |-> "row", p |-> 0]]

\* A full recomputation of the SizeTraits of every view, bottom-up
RECURSIVE FullSizeTraits(_, _)
FullSizeTraits(lay, v) ==
    Layout_size_traits(lay[v],
        [u \in Views |->
            IF \E k \in 1..Len(lay[v].subviews) : lay[v].subviews[k] = u
            THEN FullSizeTraits(lay, u) ELSE SizeTraitsDefault])

\* What is remembered of the last layout operation: its name, the view it
\* was applied to, whether the flags were in order before it, what it
\* returned, the views whose layout or listener it called, (for
\* set_subview_frame) the frame and the flags the view had before it, and
\* (for flush_position_event) the views that carried POSITION_EVENT before
\* it, and (for update_size_traits) whether it came right after another
\* update_size_traits that recomputed something, and (for
\* flush_position_event) for each call of a listener the views whose
\* global_frame was up to date when it was called, and (for
\* update_size_traits) one record for each call of update_size_traits made
\* in the pass, in the order the calls returned, and (for
\* flush_position_event) the views that carried DESCENDANT_POSITION_EVENT
\* before it.
NoLop ==
    [op |-> "", view |-> None, pre |-> FALSE, changed |-> FALSE, calls |-> <<>>,
     old_frame |-> Box2(<<0, 0>>, <<0, 0>>), old_dirty |-> {}, flagged |-> {},
     again |-> FALSE, fresh |-> <<>>, new_frame |-> Box2(<<0, 0>>, <<0, 0>>),
     visits |-> <<>>, descendant_flagged |-> {}]

InitLayout ==
    /\ layout = InitialLayout
    /\ size_traits = [v \in Views |-> FullSizeTraits(InitialLayout, v)]
    /\ frame = [v \in Views |-> IF v = Root THEN RootFrame ELSE Box2(<<0, 0>>, <<0, 0>>)]
    /\ global_frame = [v \in Views |->
                          IF v = Root THEN RootFrame ELSE Box2(<<0, 0>>, <<0, 0>>)]
    /\ dirty = [v \in Views |-> {}]
    /\ lop = NoLop

(***************************************************************************)
(* The up phase.                                                           *)
(***************************************************************************)
\* HView::update_size_traits on view v, from the state st = [dirty,
\* size_traits, calls, visits] on; `changed` is what it returns, calls lists
\* the views whose Layout::size_traits it invoked, and visits gets one
\* record when the call returns.
RECURSIVE update_size_traits(_, _, _)
RECURSIVE update_size_traits_subviews(_, _, _, _)

\* A faulty variant of the loop over the subviews that stops at the first subview
\* that returns true
RECURSIVE update_size_traits_subviews_any(_, _, _, _)
update_size_traits_subviews_any(lay, st, subs, needs_recalculate) ==
    IF subs = <<>> THEN [st EXCEPT !.changed = needs_recalculate]
    ELSE LET r == update_size_traits(lay, st, Head(subs))
         IN IF r.changed THEN r
            ELSE update_size_traits_subviews_any(lay, r, Tail(subs), needs_recalculate)

\* The loop over the subviews: every subview is updated, and
\* needs_recalculate becomes true if one of them returns true.
update_size_traits_subviews(lay, st, subs, needs_recalculate) ==
    IF subs = <<>> THEN [st EXCEPT !.changed = needs_recalculate]
    ELSE LET r == update_size_traits(lay, st, Head(subs))
         IN update_size_traits_subviews(lay, r, Tail(subs),
                                        needs_recalculate \/ r.changed)

\* The recomputation of the SizeTraits of v with its flags left as they are
C12_Recalculate(lay, st, v) ==
    LET new_size_traits == Layout_size_traits(lay[v], st.size_traits)
        st2 == [st EXCEPT !.calls = Append(@, v)]
    IN IF new_size_traits # st2.size_traits[v]
       THEN [st2 EXCEPT !.size_traits[v] = new_size_traits, !.changed = TRUE]
       ELSE [st2 EXCEPT !.changed = FALSE]

\* A faulty variant of update_size_traits that leaves SIZE_TRAITS set after
\* the recomputation
update_size_traits_keep_flag(lay, st, v) ==
    LET st1 == IF DESCENDANT_SIZE_TRAITS \in st.dirty[v]
               THEN LET a == [st EXCEPT !.dirty[v] = @ \ {DESCENDANT_SIZE_TRAITS}]
                        b == update_size_traits_subviews(lay, a, lay[v].subviews, FALSE)
                    IN IF b.changed
                       THEN [b EXCEPT !.dirty[v] = @ \cup {SIZE_TRAITS}]
                       ELSE b
               ELSE st
    IN IF SIZE_TRAITS \in st1.dirty[v]
       THEN C12_Recalculate(lay, st1, v)
       ELSE [st1 EXCEPT !.changed = FALSE]

\* A faulty variant of update_size_traits that recomputes a view carrying
\* SIZE_TRAITS before it visits the subviews, and again after them
update_size_traits_early(lay, st, v) ==
    LET st0 == IF SIZE_TRAITS \in st.dirty[v]
               THEN C12_Recalculate(lay, [st EXCEPT !.dirty[v] = @ \ {SIZE_TRAITS}], v)
               ELSE [st EXCEPT !.changed = FALSE]
        st1 == IF DESCENDANT_SIZE_TRAITS \in st0.dirty[v]
               THEN LET a == [st0 EXCEPT !.dirty[v] = @ \ {DESCENDANT_SIZE_TRAITS}]
                        b == update_size_traits_subviews(lay, a, lay[v].subviews, FALSE)
                    IN IF b.changed
                       THEN [b EXCEPT !.dirty[v] = @ \cup {SIZE_TRAITS}]
                       ELSE [b EXCEPT !.changed = st0.changed]
               ELSE st0
    IN IF SIZE_TRAITS \in st1.dirty[v]
       THEN LET r == C12_Recalculate(lay, [st1 EXCEPT !.dirty[v] = @ \ {SIZE_TRAITS}], v)
            IN [r EXCEPT !.changed = @ \/ st0.changed]
       ELSE st1

\* What a call of update_size_traits on v that began in the state st and
\* returns in the state r leaves in visits
Visit(st, r, v) ==
    [view |-> v, dirty_in |-> st.dirty[v], dirty_out |-> r.dirty[v],
     old |-> st.size_traits[v], new |-> r.size_traits[v], changed |-> r.changed]

\* A faulty variant of update_size_traits that returns true whenever it
\* recomputed the SizeTraits, equal to the cached ones or not
update_size_traits_reports_recomputation(lay, st, v) ==
    LET st1 == IF DESCENDANT_SIZE_TRAITS \in st.dirty[v]
               THEN LET a == [st EXCEPT !.dirty[v] = @ \ {DESCENDANT_SIZE_TRAITS}]
                        b == update_size_traits_subviews(lay, a, lay[v].subviews, FALSE)
                    IN IF b.changed
                       THEN [b EXCEPT !.dirty[v] = @ \cup {SIZE_TRAITS}]
                       ELSE b
               ELSE st
        r == IF SIZE_TRAITS \in st1.dirty[v]
             THEN [st1 EXCEPT !.dirty[v] = @ \ {SIZE_TRAITS},
                              !.calls = Append(@, v),
                              !.size_traits[v] = Layout_size_traits(lay[v], st1.size_traits),
                              !.changed = TRUE]
             ELSE [st1 EXCEPT !.changed = FALSE]
    IN [r EXCEPT !.visits = Append(@, Visit(st, r, v))]

update_size_traits(lay, st, v) ==
    LET st1 == IF DESCENDANT_SIZE_TRAITS \in st.dirty[v]
               THEN LET a == [st EXCEPT !.dirty[v] = @ \ {DESCENDANT_SIZE_TRAITS}]
                        b == update_size_traits_subviews(lay, a, lay[v].subviews, FALSE)
                    IN IF b.changed
                       THEN [b EXCEPT !.dirty[v] = @ \cup {SIZE_TRAITS}]
                       ELSE b
               ELSE st
        r == IF SIZE_TRAITS \in st1.dirty[v]
             THEN LET new_size_traits == Layout_size_traits(lay[v], st1.size_traits)
                      st2 == [st1 EXCEPT !.dirty[v] = @ \ {SIZE_TRAITS},
                                         !.calls = Append(@, v)]
                  IN IF new_size_traits # st2.size_traits[v]
                     THEN [st2 EXCEPT !.size_traits[v] = new_size_traits, !.changed = TRUE]
                     ELSE [st2 EXCEPT !.changed = FALSE]
             ELSE [st1 EXCEPT !.changed = FALSE]
    IN [r EXCEPT !.visits = Append(@, Visit(st, r, v))]

\* Every view whose cached SizeTraits differ from what its layout computes
\* carries SIZE_TRAITS, and every view carrying SIZE_TRAITS or
\* DESCENDANT_SIZE_TRAITS has DESCENDANT_SIZE_TRAITS on all its ancestors.
SizeTraitsFlagged ==
    \A v \in Views :
        /\ size_traits[v] # Layout_size_traits(layout[v], size_traits)
              => SIZE_TRAITS \in dirty[v]
        /\ dirty[v] \cap {SIZE_TRAITS, DESCENDANT_SIZE_TRAITS} # {}
              => \A a \in Ancestors(layout, v) : DESCENDANT_SIZE_TRAITS \in dirty[a]

\* A mutation of view v: a new layout with the same subviews is installed.
\* HView::set_layout is not among the sources; by the data flow of the
\* specification a mutation marks the view and propagates the descendant
\* flag up to the root.
SetLayoutParams(v, kind, p) ==
    /\ layout[v].kind # kind \/ layout[v].p # p
    /\ layout[v].subviews # <<>> \/ kind = "row"
    /\ layout' = [layout EXCEPT ![v].kind = kind, ![v].p = p]
    /\ dirty' = [u \in Views |->
                    IF u = v THEN dirty[u] \cup {SIZE_TRAITS}
                    ELSE IF u \in Ancestors(layout, v)
                    THEN dirty[u] \cup {DESCENDANT_SIZE_TRAITS}
                    ELSE dirty[u]]
    /\ lop' = [NoLop EXCEPT !.op = "set_layout", !.view = v]
    /\ UNCHANGED <<size_traits, frame, global_frame>>

\* The up phase of an update: update_size_traits on the root
UpdateSizeTraits ==
    /\ LET r == update_size_traits(layout,
                    [dirty |-> dirty, size_traits |-> size_traits,
                     changed |-> FALSE, calls |-> <<>>, visits |-> <<>>], Root)
       IN /\ dirty' = r.dirty
          /\ size_traits' = r.size_traits
          /\ lop' = [NoLop EXCEPT !.op = "update_size_traits", !.view = Root,
                                  !.pre = SizeTraitsFlagged,
                                  !.changed = r.changed, !.calls = r.calls,
                                  !.visits = r.visits,
                                  !.again = (lop.op = "update_size_traits"
                                                /\ lop.calls # <<>>)]
    /\ UNCHANGED <<layout, frame, global_frame>>

NextSize ==
    \/ \E v \in Views, kind \in LayoutKinds, p \in LayoutParams :
          SetLayoutParams(v, kind, p)
    \/ UpdateSizeTraits

(***************************************************************************)
(* The down phase.                                                         *)
(***************************************************************************)
\* A faulty variant of set_subview_frame that raises POSITION_EVENT only when the
\* origin of the frame moves.
set_subview_frame_origin_only(st, active_view, hview, fr) ==
    LET old == st.frame[hview]
        d1 == IF BoxSize(fr) # BoxSize(old)
              THEN [st.dirty EXCEPT ![hview] = @ \cup {SUBVIEWS_FRAME},
                                    ![active_view] = @ \cup {DESCENDANT_SUBVIEWS_FRAME}]
              ELSE st.dirty
        d2 == IF fr.min # old.min
              THEN [d1 EXCEPT ![hview] = @ \cup {POSITION_EVENT},
                              ![active_view] = @ \cup {DESCENDANT_POSITION_EVENT}]
              ELSE d1
    IN [st EXCEPT !.dirty = d2, !.frame[hview] = fr]

\* A faulty variant of set_subview_frame that marks the views whether or not
\* the frame changes
set_subview_frame_always_marks(st, active_view, hview, fr) ==
    [st EXCEPT !.dirty[hview] = @ \cup {SUBVIEWS_FRAME, POSITION_EVENT},
               !.dirty[active_view] =
                   @ \cup {DESCENDANT_SUBVIEWS_FRAME, DESCENDANT_POSITION_EVENT},
               !.frame[hview] = fr]

\* LayoutCtx::set_subview_frame, called by the layout of active_view for its
\* subview hview; set_dirty_flags adds the flags to the view's dirty set.
set_subview_frame(st, active_view, hview, fr) ==
    LET old == st.frame[hview]
        d1 == IF BoxSize(fr) # BoxSize(old)
              THEN [st.dirty EXCEPT ![hview] = @ \cup {SUBVIEWS_FRAME},
                                    ![active_view] = @ \cup {DESCENDANT_SUBVIEWS_FRAME}]
              ELSE st.dirty
        d2 == IF fr # old
              THEN [d1 EXCEPT ![hview] = @ \cup {POSITION_EVENT},
                              ![active_view] = @ \cup {DESCENDANT_POSITION_EVENT}]
              ELSE d1
    IN [st EXCEPT !.dirty = d2, !.frame[hview] = fr]

\* Layout::arrange of view v: set_subview_frame for the first n subviews, in
\* order, with the frames arr gives them.
RECURSIVE Layout_arrange(_, _, _, _, _)
Layout_arrange(st, v, subs, n, arr) ==
    IF subs = <<>> \/ n = 0 THEN st
    ELSE Layout_arrange(set_subview_frame(st, v, Head(subs), arr[Head(subs)]),
                        v, Tail(subs), n - 1, arr)

\* HView::set_layout with a layout of the same subviews. It is not among the
\* sources; by the specification it re-marks the view and propagates the
\* descendant flags to the ancestors.
HView_set_layout(lay, d, v) ==
    [u \in Views |->
        IF u = v THEN d[u] \cup {SUBVIEWS_FRAME}
        ELSE IF u \in Ancestors(lay, v)
        THEN d[u] \cup {DESCENDANT_SUBVIEWS_FRAME}
        ELSE d[u]]

\* The flags the subviews hand to their superview at the end of its pass
RECURSIVE new_position_dirty(_, _)
new_position_dirty(d, subs) ==
    IF subs = <<>> THEN {}
    ELSE (d[Head(subs)] \cap {DESCENDANT_POSITION_EVENT})
            \cup new_position_dirty(d, Tail(subs))

\* HView::update_subview_frames on view v, from the state st = [frame,
\* global_frame, dirty, calls] on. arr gives the frames the layouts choose;
\* the layout of a view in repl asks for its replacement, after having set
\* the frames of its first cut subviews. calls is the record of the pass:
\* the calls entered and left, the arrange calls, the LayoutCtx::set_layout
\* calls of the layouts and the HView::set_layout calls that follow them.
RECURSIVE update_subview_frames(_, _, _, _, _, _)
RECURSIVE update_subview_frames_subviews(_, _, _, _, _, _)

update_subview_frames_subviews(lay, st, subs, arr, repl, cut) ==
    IF subs = <<>> THEN st
    ELSE update_subview_frames_subviews(lay,
             update_subview_frames(lay, st, Head(subs), arr, repl, cut),
             Tail(subs), arr, repl, cut)

\* An entry of the record of a down phase: what happened, on which view, the
\* dirty flags of the view at that moment, and those of all views
Event(ev, st, v) ==
    [ev |-> ev, view |-> v, dirty |-> st.dirty[v],
     all |-> [u \in Views |-> st.dirty[u]]]

\* A faulty variant of update_subview_frames that goes on after the layout
\* was replaced
update_subview_frames_no_return(lay, st, v, arr, repl, cut) ==
    LET st0 == [st EXCEPT !.calls = Append(@, Event("enter", st, v))]
        may_pend_position ==
            st0.dirty[v] \cap {SUBVIEWS_FRAME, DESCENDANT_SUBVIEWS_FRAME} # {}
        arranging == SUBVIEWS_FRAME \in st0.dirty[v]
        replaced == arranging /\ v \in repl
        st1 == IF arranging
               THEN LET a == [st0 EXCEPT !.dirty[v] = @ \ {SUBVIEWS_FRAME}]
                        b == Layout_arrange(
                                 [a EXCEPT !.calls = Append(@, Event("arrange", a, v))],
                                 v, lay[v].subviews,
                                 IF replaced THEN cut ELSE Len(lay[v].subviews), arr)
                        c == IF replaced
                             THEN [b EXCEPT !.calls =
                                      Append(@, Event("ctx.set_layout", b, v))]
                             ELSE b
                    IN [c EXCEPT !.calls = Append(@, Event("arrange returns", c, v))]
               ELSE st0
        sw == IF replaced
              THEN LET d == [st1 EXCEPT !.dirty = HView_set_layout(lay, st1.dirty, v)]
                   IN [d EXCEPT !.calls = Append(@, Event("set_layout", d, v))]
              ELSE st1
        st2 == IF DESCENDANT_SUBVIEWS_FRAME \in sw.dirty[v]
               THEN update_subview_frames_subviews(lay,
                        [sw EXCEPT !.dirty[v] = @ \ {DESCENDANT_SUBVIEWS_FRAME}],
                        lay[v].subviews, arr, repl, cut)
               ELSE sw
        st3 == IF may_pend_position
               THEN [st2 EXCEPT !.dirty[v] =
                        @ \cup new_position_dirty(st2.dirty, lay[v].subviews)]
               ELSE st2
    IN [st3 EXCEPT !.calls = Append(@, Event("return", st3, v))]

\* A faulty variant of update_subview_frames that clears
\* DESCENDANT_SUBVIEWS_FRAME only after it has recursed into the subviews
update_subview_frames_clear_late(lay, st, v, arr, repl, cut) ==
    LET st0 == [st EXCEPT !.calls = Append(@, Event("enter", st, v))]
        may_pend_position ==
            st0.dirty[v] \cap {SUBVIEWS_FRAME, DESCENDANT_SUBVIEWS_FRAME} # {}
        arranging == SUBVIEWS_FRAME \in st0.dirty[v]
        replaced == arranging /\ v \in repl
        st1 == IF arranging
               THEN LET a == [st0 EXCEPT !.dirty[v] = @ \ {SUBVIEWS_FRAME}]
                        b == Layout_arrange(
                                 [a EXCEPT !.calls = Append(@, Event("arrange", a, v))],
                                 v, lay[v].subviews,
                                 IF replaced THEN cut ELSE Len(lay[v].subviews), arr)
                        c == IF replaced
                             THEN [b EXCEPT !.calls =
                                      Append(@, Event("ctx.set_layout", b, v))]
                             ELSE b
                    IN [c EXCEPT !.calls = Append(@, Event("arrange returns", c, v))]
               ELSE st0
        st3 == IF replaced
               THEN LET d == [st1 EXCEPT !.dirty = HView_set_layout(lay, st1.dirty, v)]
                    IN [d EXCEPT !.calls = Append(@, Event("set_layout", d, v))]
               ELSE LET st2 == IF DESCENDANT_SUBVIEWS_FRAME \in st1.dirty[v]
                               THEN LET w == update_subview_frames_subviews(lay,
                                                 st1, lay[v].subviews, arr, repl, cut)
                                    IN [w EXCEPT !.dirty[v] =
                                           @ \ {DESCENDANT_SUBVIEWS_FRAME}]
                               ELSE st1
                    IN IF may_pend_position
                       THEN [st2 EXCEPT !.dirty[v] =
                                @ \cup new_position_dirty(st2.dirty, lay[v].subviews)]
                       ELSE st2
    IN [st3 EXCEPT !.calls = Append(@, Event("return", st3, v))]

\* A faulty variant of update_subview_frames that does not hand
\* DESCENDANT_POSITION_EVENT of the subviews to the view
update_subview_frames_no_propagation(lay, st, v, arr, repl, cut) ==
    LET st0 == [st EXCEPT !.calls = Append(@, Event("enter", st, v))]
        may_pend_position ==
            st0.dirty[v] \cap {SUBVIEWS_FRAME, DESCENDANT_SUBVIEWS_FRAME} # {}
        arranging == SUBVIEWS_FRAME \in st0.dirty[v]
        replaced == arranging /\ v \in repl
        st1 == IF arranging
               THEN LET a == [st0 EXCEPT !.dirty[v] = @ \ {SUBVIEWS_FRAME}]
                        b == Layout_arrange(
                                 [a EXCEPT !.calls = Append(@, Event("arrange", a, v))],
                                 v, lay[v].subviews,
                                 IF replaced THEN cut ELSE Len(lay[v].subviews), arr)
                        c == IF replaced
                             THEN [b EXCEPT !.calls =
                                      Append(@, Event("ctx.set_layout", b, v))]
                             ELSE b
                    IN [c EXCEPT !.calls = Append(@, Event("arrange returns", c, v))]
               ELSE st0
        st3 == IF replaced
               THEN LET d == [st1 EXCEPT !.dirty = HView_set_layout(lay, st1.dirty, v)]
                    IN [d EXCEPT !.calls = Append(@, Event("set_layout", d, v))]
               ELSE LET st2 == IF DESCENDANT_SUBVIEWS_FRAME \in st1.dirty[v]
                               THEN update_subview_frames_subviews(lay,
                                        [st1 EXCEPT !.dirty[v] =
                                            @ \ {DESCENDANT_SUBVIEWS_FRAME}],
                                        lay[v].subviews, arr, repl, cut)
                               ELSE st1
                    IN st2
    IN [st3 EXCEPT !.calls = Append(@, Event("return", st3, v))]

\* A faulty variant of update_subview_frames that also arranges a view
\* carrying only DESCENDANT_SUBVIEWS_FRAME
update_subview_frames_arranges_flagged(lay, st, v, arr, repl, cut) ==
    LET st0 == [st EXCEPT !.calls = Append(@, Event("enter", st, v))]
        may_pend_position ==
            st0.dirty[v] \cap {SUBVIEWS_FRAME, DESCENDANT_SUBVIEWS_FRAME} # {}
        arranging == may_pend_position
        replaced == arranging /\ v \in repl
        st1 == IF arranging
               THEN LET a == [st0 EXCEPT !.dirty[v] = @ \ {SUBVIEWS_FRAME}]
                        b == Layout_arrange(
                                 [a EXCEPT !.calls = Append(@, Event("arrange", a, v))],
                                 v, lay[v].subviews,
                                 IF replaced THEN cut ELSE Len(lay[v].subviews), arr)
                        c == IF replaced
                             THEN [b EXCEPT !.calls =
                                      Append(@, Event("ctx.set_layout", b, v))]
                             ELSE b
                    IN [c EXCEPT !.calls = Append(@, Event("arrange returns", c, v))]
               ELSE st0
        st3 == IF replaced
               THEN LET d == [st1 EXCEPT !.dirty = HView_set_layout(lay, st1.dirty, v)]
                    IN [d EXCEPT !.calls = Append(@, Event("set_layout", d, v))]
               ELSE LET st2 == IF DESCENDANT_SUBVIEWS_FRAME \in st1.dirty[v]
                               THEN update_subview_frames_subviews(lay,
                                        [st1 EXCEPT !.dirty[v] =
                                            @ \ {DESCENDANT_SUBVIEWS_FRAME}],
                                        lay[v].subviews, arr, repl, cut)
                               ELSE st1
                    IN IF may_pend_position
                       THEN [st2 EXCEPT !.dirty[v] =
                                @ \cup new_position_dirty(st2.dirty, lay[v].subviews)]
                       ELSE st2
    IN [st3 EXCEPT !.calls = Append(@, Event("return", st3, v))]

update_subview_frames(lay, st, v, arr, repl, cut) ==
    LET st0 == [st EXCEPT !.calls = Append(@, Event("enter", st, v))]
        may_pend_position ==
            st0.dirty[v] \cap {SUBVIEWS_FRAME, DESCENDANT_SUBVIEWS_FRAME} # {}
        arranging == SUBVIEWS_FRAME \in st0.dirty[v]
        replaced == arranging /\ v \in repl
        st1 == IF arranging
               THEN LET a == [st0 EXCEPT !.dirty[v] = @ \ {SUBVIEWS_FRAME}]
                        b == Layout_arrange(
                                 [a EXCEPT !.calls = Append(@, Event("arrange", a, v))],
                                 v, lay[v].subviews,
                                 IF replaced THEN cut ELSE Len(lay[v].subviews), arr)
                        c == IF replaced
                             THEN [b EXCEPT !.calls =
                                      Append(@, Event("ctx.set_layout", b, v))]
                             ELSE b
                    IN [c EXCEPT !.calls = Append(@, Event("arrange returns", c, v))]
               ELSE st0
        st3 == IF replaced
               THEN LET d == [st1 EXCEPT !.dirty = HView_set_layout(lay, st1.dirty, v)]
                    IN [d EXCEPT !.calls = Append(@, Event("set_layout", d, v))]
               ELSE LET st2 == IF DESCENDANT_SUBVIEWS_FRAME \in st1.dirty[v]
                               THEN update_subview_frames_subviews(lay,
                                        [st1 EXCEPT !.dirty[v] =
                                            @ \ {DESCENDANT_SUBVIEWS_FRAME}],
                                        lay[v].subviews, arr, repl, cut)
                               ELSE st1
                    IN IF may_pend_position
                       THEN [st2 EXCEPT !.dirty[v] =
                                @ \cup new_position_dirty(st2.dirty, lay[v].subviews)]
                       ELSE st2
    IN [st3 EXCEPT !.calls = Append(@, Event("return", st3, v))]

(***************************************************************************)
(* The position-dispatch pass.                                             *)
(***************************************************************************)
\* The sum of the frame origins of the given views
RECURSIVE SumOrigins(_, _)
SumOrigins(fr, S) ==
    IF S = {} THEN <<0, 0>>
    ELSE LET a == CHOOSE x \in S : TRUE
         IN Vec2Add(fr[a].min, SumOrigins(fr, S \ {a}))

\* The frame of v in the coordinates of the window
ExpectedGlobalFrame(lay, fr, v) ==
    BoxTranslate(fr[v], SumOrigins(fr, Ancestors(lay, v)))

\* The views whose global_frame is their frame in the coordinates of the
\* window
UpToDate(lay, st) ==
    {u \in Views : st.global_frame[u] = ExpectedGlobalFrame(lay, st.frame, u)}

\* update_global_frame of flush_position_event
update_global_frame(st, this, global_offset) ==
    [st EXCEPT !.global_frame[this] = BoxTranslate(st.frame[this], global_offset)]

RECURSIVE traverse_all(_, _, _, _)
RECURSIVE traverse_all_subviews(_, _, _, _)
RECURSIVE traverse(_, _, _, _)
RECURSIVE traverse_subviews(_, _, _, _)

\* A faulty variant of traverse_all that descends selectively, as traverse does
traverse_all_selective(lay, st, this, global_offset) ==
    traverse(lay, st, this, global_offset)

traverse_all_subviews(lay, st, subs, global_offset) ==
    IF subs = <<>> THEN st
    ELSE traverse_all_subviews(lay,
             traverse_all(lay, st, Head(subs), global_offset),
             Tail(subs), global_offset)

\* A faulty variant of traverse_all that calls the listener before it
\* updates global_frame
traverse_all_callback_first(lay, st, this, global_offset) ==
    LET b == [st EXCEPT !.dirty[this] = @ \ {POSITION_EVENT, DESCENDANT_POSITION_EVENT},
                        !.calls = Append(@, this),
                        !.fresh = Append(@, UpToDate(lay, st))]
        a == update_global_frame(b, this, global_offset)
    IN traverse_all_subviews(lay, a, lay[this].subviews, a.global_frame[this].min)

\* traverse_all of flush_position_event; cb records the view it is given
\* and the views whose global_frame is up to date
traverse_all(lay, st, this, global_offset) ==
    LET a == update_global_frame(st, this, global_offset)
        b == [a EXCEPT !.dirty[this] = @ \ {POSITION_EVENT, DESCENDANT_POSITION_EVENT},
                       !.calls = Append(@, this),
                       !.fresh = Append(@, UpToDate(lay, a))]
    IN traverse_all_subviews(lay, b, lay[this].subviews, b.global_frame[this].min)

\* A faulty variant of traverse that calls back every view it is given
traverse_everything(lay, st, this, global_offset) ==
    traverse_all(lay, st, this, global_offset)

traverse_subviews(lay, st, subs, global_offset) ==
    IF subs = <<>> THEN st
    ELSE traverse_subviews(lay,
             traverse(lay, st, Head(subs), global_offset),
             Tail(subs), global_offset)

\* A faulty variant of traverse that clears only POSITION_EVENT on a view
\* carrying it
traverse_clears_position_only(lay, st, this, global_offset) ==
    IF POSITION_EVENT \in st.dirty[this]
    THEN LET a == update_global_frame(st, this, global_offset)
             b == [a EXCEPT !.dirty[this] = @ \ {POSITION_EVENT},
                            !.calls = Append(@, this),
                            !.fresh = Append(@, UpToDate(lay, a))]
         IN traverse_all_subviews(lay, b, lay[this].subviews,
                                  b.global_frame[this].min)
    ELSE IF DESCENDANT_POSITION_EVENT \in st.dirty[this]
    THEN traverse_subviews(lay,
             [st EXCEPT !.dirty[this] = @ \ {DESCENDANT_POSITION_EVENT}],
             lay[this].subviews, st.global_frame[this].min)
    ELSE st

\* A faulty variant of traverse that descends from a view carrying only
\* DESCENDANT_POSITION_EVENT and leaves the flag set
traverse_keeps_descendant_flag(lay, st, this, global_offset) ==
    IF POSITION_EVENT \in st.dirty[this]
    THEN LET a == update_global_frame(st, this, global_offset)
             b == [a EXCEPT !.dirty[this] =
                                @ \ {POSITION_EVENT, DESCENDANT_POSITION_EVENT},
                            !.calls = Append(@, this),
                            !.fresh = Append(@, UpToDate(lay, a))]
         IN traverse_all_subviews(lay, b, lay[this].subviews,
                                  b.global_frame[this].min)
    ELSE IF DESCENDANT_POSITION_EVENT \in st.dirty[this]
    THEN traverse_subviews(lay, st, lay[this].subviews, st.global_frame[this].min)
    ELSE st

\* traverse of flush_position_event
traverse(lay, st, this, global_offset) ==
    IF POSITION_EVENT \in st.dirty[this]
    THEN LET a == update_global_frame(st, this, global_offset)
             b == [a EXCEPT !.dirty[this] =
                                @ \ {POSITION_EVENT, DESCENDANT_POSITION_EVENT},
                            !.calls = Append(@, this),
                            !.fresh = Append(@, UpToDate(lay, a))]
         IN traverse_all_subviews(lay, b, lay[this].subviews,
                                  b.global_frame[this].min)
    ELSE IF DESCENDANT_POSITION_EVENT \in st.dirty[this]
    THEN traverse_subviews(lay,
             [st EXCEPT !.dirty[this] = @ \ {DESCENDANT_POSITION_EVENT}],
             lay[this].subviews, st.global_frame[this].min)
    ELSE st

\* HView::flush_position_event
flush_position_event(lay, st, v) == traverse(lay, st, v, <<0, 0>>)

\* Every view carrying POSITION_EVENT or DESCENDANT_POSITION_EVENT has
\* DESCENDANT_POSITION_EVENT on all its ancestors, and every view with no
\* such flag on itself or an ancestor has a correct global_frame.
PositionFlagged ==
    \A v \in Views :
        /\ dirty[v] \cap {POSITION_EVENT, DESCENDANT_POSITION_EVENT} # {}
              => \A a \in Ancestors(layout, v) : DESCENDANT_POSITION_EVENT \in dirty[a]
        /\ (\A u \in {v} \cup Ancestors(layout, v) :
                dirty[u] \cap {POSITION_EVENT, DESCENDANT_POSITION_EVENT} = {})
              => global_frame[v] = ExpectedGlobalFrame(layout, frame, v)

\* The views that have subviews
Superviews == {v \in Views : layout[v].subviews # <<>>}

\* Something outside the layout engine replaces the layout of view v
SetLayout(v) ==
    /\ SUBVIEWS_FRAME \notin dirty[v]
    /\ dirty' = HView_set_layout(layout, dirty, v)
    /\ lop' = [NoLop EXCEPT !.op = "set_layout", !.view = v]
    /\ UNCHANGED <<layout, size_traits, frame, global_frame>>

\* How many set_subview_frame calls a layout makes before it asks for its
\* replacement
ReplaceAfter == 1

\* The views whose superview may be arranged in the next pass: a layout is
\* arranged only if it or one of its ancestors carries SUBVIEWS_FRAME.
Arrangeable ==
    {v \in Views : \E u \in Ancestors(layout, v) : SUBVIEWS_FRAME \in dirty[u]}

\* The frames a layout gives to view v: a view without subviews is given a
\* frame of one size at two origins.
FramesOf(v) ==
    IF layout[v].subviews = <<>> THEN Frames \ {Box2(<<0, 0>>, <<0, 0>>)} ELSE Frames

\* arr moves a view only if its superview is arranged in the pass: the
\* superview carries SUBVIEWS_FRAME, or its own size is changed by arr.
Arrangement(arr, superview) ==
    \A v \in DOMAIN arr :
        arr[v] # frame[v] =>
          /\ arr[v] \in FramesOf(v)
          /\
            \/ SUBVIEWS_FRAME \in dirty[superview[v]]
            \/ /\ superview[v] \in DOMAIN arr
               /\ BoxSize(arr[superview[v]]) # BoxSize(frame[superview[v]])

\* The down phase of an update: update_subview_frames on the root. arr gives
\* the frames the layouts choose for the views that may be arranged (the
\* others are not arranged, whatever is chosen for them), and the layouts of
\* the views in repl ask for their replacement.
UpdateSubviewFrames(arr, repl) ==
    /\ dirty[Root] \cap {SUBVIEWS_FRAME, DESCENDANT_SUBVIEWS_FRAME} # {}
    /\ LET r == update_subview_frames(layout,
                    [frame |-> frame, global_frame |-> global_frame,
                     dirty |-> dirty, calls |-> <<>>], Root,
                    [v \in Views |-> IF v \in DOMAIN arr THEN arr[v] ELSE frame[v]],
                    repl, ReplaceAfter)
       IN /\ frame' = r.frame
          /\ dirty' = r.dirty
          /\ lop' = [NoLop EXCEPT !.op = "update_subview_frames", !.view = Root]
    /\ UNCHANGED <<layout, size_traits, global_frame>>

\* The position-dispatch pass of an update: flush_position_event on the root
FlushPositionEvent ==
    /\ dirty[Root] \cap {POSITION_EVENT, DESCENDANT_POSITION_EVENT} # {}
    /\ LET r == flush_position_event(layout,
                    [frame |-> frame, global_frame |-> global_frame,
                     dirty |-> dirty, calls |-> <<>>, fresh |-> <<>>], Root)
       IN /\ global_frame' = r.global_frame
          /\ dirty' = r.dirty
          /\ lop' = [NoLop EXCEPT !.op = "flush_position_event", !.view = Root,
                                  !.pre = PositionFlagged, !.calls = r.calls,
                                  !.fresh = r.fresh,
                                  !.flagged = {v \in Views : POSITION_EVENT \in dirty[v]},
                                  !.descendant_flagged =
                                      {v \in Views : DESCENDANT_POSITION_EVENT \in dirty[v]}]
    /\ UNCHANGED <<layout, size_traits, frame>>

NextPos ==
    \/ \E v \in Superviews : SetLayout(v)
    \/ LET superview == [v \in Views |-> Superview(layout, v)]
       IN \E arr \in {a \in [Arrangeable -> Frames] : Arrangement(a, superview)} :
          \E repl \in {{}} \cup {{v} : v \in Superviews \cap (Arrangeable \cup {Root})} :
              UpdateSubviewFrames(arr, repl)
    \/ FlushPositionEvent

\* A tree of four levels: each view but the last has one subview
ChainLayout ==
    [v \in Views |->
        [subviews |-> (IF v < 4 THEN <<v + 1>> ELSE <<>>), kind |-> "row", p |-> 0]]

\* The states a down phase leaves behind, on the tree of InitialLayout or of
\* ChainLayout: the layouts have moved or resized the views of P, whose
\* frames were those of old before; these views carry POSITION_EVENT and the
\* views above them DESCENDANT_POSITION_EVENT, and global_frame is still what
\* the last position-dispatch pass computed from the frames of old.
InitFlushInputs ==
    /\ layout \in {InitialLayout, ChainLayout}
    /\ size_traits = [v \in Views |-> FullSizeTraits(layout, v)]
    /\ \E fr \in [Views \ {Root} -> Frames], old \in [Views \ {Root} -> Frames] :
          LET P == {v \in Views \ {Root} : fr[v] # old[v]}
              f(g) == [v \in Views |-> IF v = Root THEN RootFrame ELSE g[v]]
          IN /\ frame = f(fr)
             /\ global_frame = [v \in Views |-> ExpectedGlobalFrame(layout, f(old), v)]
             /\ dirty = [v \in Views |->
                            (IF v \in P THEN {POSITION_EVENT} ELSE {})
                               \cup (IF \E u \in P : v \in Ancestors(layout, u)
                                     THEN {DESCENDANT_POSITION_EVENT} ELSE {})]
    /\ lop = NoLop

\* One position-dispatch pass from these states
FlushPositionEventOnce == lop.op = "" /\ FlushPositionEvent

NextFlush == FlushPositionEventOnce

(***************************************************************************)
(* Single calls of set_subview_frame, from any frames and flags.           *)
(***************************************************************************)
FrameFlags ==
    {SUBVIEWS_FRAME, DESCENDANT_SUBVIEWS_FRAME, POSITION_EVENT, DESCENDANT_POSITION_EVENT}

\* The inputs of a call: every view has the frame f, the root and view 3
\* carry the flags D1 and views 2 and 4 the flags D2, so that a subview and
\* its superview carry the same flags or different ones.
InitFrame ==
    /\ layout = InitialLayout
    /\ size_traits = [v \in Views |-> FullSizeTraits(InitialLayout, v)]
    /\ \E f \in Frames : frame = [v \in Views |-> IF v = Root THEN RootFrame ELSE f]
    /\ global_frame = [v \in Views |-> RootFrame]
    /\ \E D1 \in SUBSET FrameFlags, D2 \in SUBSET FrameFlags :
          dirty = [v \in Views |-> IF v \in {1, 3} THEN D1 ELSE D2]
    /\ lop = NoLop

\* The layout of the superview of hview calls set_subview_frame(hview, fr)
SetSubviewFrame(hview, fr) ==
    /\ lop.op = ""
    /\ Superview(layout, hview) # None
    /\ LET r == set_subview_frame([frame |-> frame, dirty |-> dirty],
                                  Superview(layout, hview), hview, fr)
       IN /\ frame' = r.frame
          /\ dirty' = r.dirty
    /\ lop' = [NoLop EXCEPT !.op = "set_subview_frame", !.view = hview,
                            !.old_frame = frame[hview], !.old_dirty = dirty[hview],
                            !.new_frame = fr]
    /\ UNCHANGED <<layout, size_traits, global_frame>>

NextFrame == \E hview \in Views, fr \in Frames : SetSubviewFrame(hview, fr)

\* Every view carrying SUBVIEWS_FRAME or DESCENDANT_SUBVIEWS_FRAME has
\* DESCENDANT_SUBVIEWS_FRAME on all its ancestors, as set_dirty_flags leaves
\* them.
SubviewsFrameFlagged ==
    \A v \in Views :
        dirty[v] \cap {SUBVIEWS_FRAME, DESCENDANT_SUBVIEWS_FRAME} # {}
            => \A a \in Ancestors(layout, v) : DESCENDANT_SUBVIEWS_FRAME \in dirty[a]

\* One down phase from the inputs of InitFrame: update_subview_frames on the
\* root, where every layout gives its subviews the frame fr and the layouts
\* of the views in repl ask for their replacement
UpdateSubviewFramesOnce(fr, repl) ==
    /\ lop.op = ""
    /\ LET r == update_subview_frames(layout,
                    [frame |-> frame, global_frame |-> global_frame,
                     dirty |-> dirty, calls |-> <<>>], Root,
                    [v \in Views |-> IF v = Root THEN frame[v] ELSE fr],
                    repl, ReplaceAfter)
       IN /\ frame' = r.frame
          /\ dirty' = r.dirty
          /\ lop' = [NoLop EXCEPT !.op = "update_subview_frames", !.view = Root,
                                  !.pre = SubviewsFrameFlagged,
                                  !.calls = r.calls]
    /\ UNCHANGED <<layout, size_traits, global_frame>>

NextRestart ==
    \E fr \in Frames, repl \in SUBSET Superviews : UpdateSubviewFramesOnce(fr, repl)

(***************************************************************************)
(* LayoutCtx calls with any active view (layout.rs 391-430).               *)
(***************************************************************************)
\* LayoutCtx::ensure_subview: whether the call goes on. debug_assert_eq! is
\* compiled to nothing in a build without debug assertions.
ensure_subview(lay, active_view, hview, dbg) ==
    ~dbg \/ Superview(lay, hview) = active_view

NoCtx == [op |-> "", active_view |-> None, hview |-> None,
          frame |-> Box2(<<0, 0>>, <<0, 0>>), panic |-> "",
          result |-> SizeTraitsDefault]

InitCtx ==
    /\ debug_assertions = TRUE
    /\ ctx = NoCtx

\* The inputs of a LayoutCtx call: the frames and flags of InitFrame, in a
\* build with or without debug assertions
InitCtxInputs ==
    /\ debug_assertions \in BOOLEAN
    /\ ctx = NoCtx

\* LayoutCtx::set_subview_frame(hview, fr) on the context of active_view
CtxSetSubviewFrame(active_view, hview, fr) ==
    /\ ctx.op = ""
    /\ IF ensure_subview(layout, active_view, hview, debug_assertions)
       THEN /\ LET r == set_subview_frame([frame |-> frame, dirty |-> dirty],
                                         active_view, hview, fr)
               IN /\ frame' = r.frame
                  /\ dirty' = r.dirty
            /\ ctx' = [NoCtx EXCEPT !.op = "set_subview_frame",
                                    !.active_view = active_view,
                                    !.hview = hview, !.frame = fr]
       ELSE /\ ctx' = [NoCtx EXCEPT !.op = "set_subview_frame",
                                    !.active_view = active_view,
                                    !.hview = hview, !.frame = fr,
                                    !.panic = "the view is not a subview"]
            /\ UNCHANGED <<frame, dirty>>
    /\ UNCHANGED <<layout, size_traits, global_frame, lop, debug_assertions>>

\* LayoutCtx::subview_size_traits(hview) on the context of active_view
CtxSubviewSizeTraits(active_view, hview) ==
    /\ ctx.op = ""
    /\ IF ensure_subview(layout, active_view, hview, debug_assertions)
       THEN ctx' = [NoCtx EXCEPT !.op = "subview_size_traits",
                                 !.active_view = active_view,
                                 !.hview = hview,
                                 !.result = size_traits[hview]]
       ELSE ctx' = [NoCtx EXCEPT !.op = "subview_size_traits",
                                 !.active_view = active_view,
                                 !.hview = hview,
                                 !.panic = "the view is not a subview"]
    /\ UNCHANGED <<layoutVars, debug_assertions>>

NextCtx ==
    \/ \E active_view \in Views, hview \in Views, fr \in Frames :
          CtxSetSubviewFrame(active_view, hview, fr)
    \/ \E active_view \in Views, hview \in Views :
          CtxSubviewSizeTraits(active_view, hview)

(***************************************************************************)
(* Hit testing.                                                            *)
(***************************************************************************)
CLIP_HITTEST == "CLIP_HITTEST"
ACCEPT_MOUSE_INPUT == "ACCEPT_MOUSE_INPUT"
DENY_MOUSE_INPUT == "DENY_MOUSE_INPUT"

\* Box2::contains_point: the box is closed at min and open at max
contains_point(b, p) ==
    /\ b.min[1] <= p[1] /\ p[1] < b.max[1]
    /\ b.min[2] <= p[2] /\ p[2] < b.max[2]

RECURSIVE hit_test(_, _, _, _, _, _, _)
RECURSIVE hit_test_subviews(_, _, _, _, _, _, _, _)

\* A faulty variant of the loop of hit_test that tests the subviews in the
\* order of the list
RECURSIVE hit_test_subviews_forward(_, _, _, _, _, _, _, _)
hit_test_subviews_forward(lay, gf, fl, subs, k, p, accept_flag, deny_flag) ==
    IF k = 0 THEN None
    ELSE LET found_view == hit_test(lay, gf, fl, subs[Len(subs) + 1 - k], p,
                                    accept_flag, deny_flag)
         IN IF found_view # None THEN found_view
            ELSE hit_test_subviews_forward(lay, gf, fl, subs, k - 1, p,
                                           accept_flag, deny_flag)

\* The loop of hit_test over subviews().iter().rev(), from the k-th subview
\* down to the first: the first match ends it.
hit_test_subviews(lay, gf, fl, subs, k, p, accept_flag, deny_flag) ==
    IF k = 0 THEN None
    ELSE LET found_view == hit_test(lay, gf, fl, subs[k], p, accept_flag, deny_flag)
         IN IF found_view # None THEN found_view
            ELSE hit_test_subviews(lay, gf, fl, subs, k - 1, p,
                                   accept_flag, deny_flag)

\* A faulty variant of hit_test that looks at the deny flag only when it
\* considers the view itself
hit_test_deny_late(lay, gf, fl, v, p, accept_flag, deny_flag) ==
    LET hit_local == contains_point(gf[v], p)
    IN IF CLIP_HITTEST \in fl[v] /\ ~hit_local THEN None
       ELSE LET found_view ==
                    hit_test_subviews(lay, gf, fl, lay[v].subviews,
                                      Len(lay[v].subviews), p, accept_flag, deny_flag)
            IN IF found_view # None THEN found_view
               ELSE IF hit_local /\ fl[v] \cap accept_flag # {}
                       /\ fl[v] \cap deny_flag = {} THEN v
               ELSE None

\* A faulty variant of hit_test that ignores CLIP_HITTEST
hit_test_no_clip(lay, gf, fl, v, p, accept_flag, deny_flag) ==
    IF fl[v] \cap deny_flag # {} THEN None
    ELSE LET found_view ==
                 hit_test_subviews(lay, gf, fl, lay[v].subviews,
                                   Len(lay[v].subviews), p, accept_flag, deny_flag)
         IN IF found_view # None THEN found_view
            ELSE IF contains_point(gf[v], p) /\ fl[v] \cap accept_flag # {} THEN v
            ELSE None

\* A faulty variant of hit_test that considers the view itself before its
\* subviews
hit_test_self_first(lay, gf, fl, v, p, accept_flag, deny_flag) ==
    IF fl[v] \cap deny_flag # {} THEN None
    ELSE LET hit_local == contains_point(gf[v], p)
         IN IF CLIP_HITTEST \in fl[v] /\ ~hit_local THEN None
            ELSE IF hit_local /\ fl[v] \cap accept_flag # {} THEN v
            ELSE hit_test_subviews(lay, gf, fl, lay[v].subviews,
                                   Len(lay[v].subviews), p, accept_flag, deny_flag)

\* HView::hit_test on view v, with the global frames gf and the flags fl:
\* the view found, or None
hit_test(lay, gf, fl, v, p, accept_flag, deny_flag) ==
    IF fl[v] \cap deny_flag # {} THEN None
    ELSE LET hit_local == contains_point(gf[v], p)
         IN IF CLIP_HITTEST \in fl[v] /\ ~hit_local THEN None
            ELSE LET found_view ==
                         hit_test_subviews(lay, gf, fl, lay[v].subviews,
                                           Len(lay[v].subviews), p,
                                           accept_flag, deny_flag)
                 IN IF found_view # None THEN found_view
                    ELSE IF hit_local /\ fl[v] \cap accept_flag # {} THEN v
                    ELSE None

NoHit == [view |-> None, p |-> <<0, 0>>, accept_flag |-> {}, deny_flag |-> {},
          result |-> None]

\* ViewFlags::default of a new view
InitHit ==
    /\ flags = [v \in Views |-> {}]
    /\ hit = NoHit

\* The global frames, the flags and the points of the hit tests
GlobalFrames == {Box2(<<0, 0>>, <<2, 2>>), Box2(<<1, 1>>, <<3, 3>>)}
HitPoints == {<<0, 0>>, <<1, 1>>, <<2, 2>>}
ViewFlags == {CLIP_HITTEST, ACCEPT_MOUSE_INPUT, DENY_MOUSE_INPUT}

\* The inputs of a hit test: any global frames and any flags (CLIP_HITTEST
\* only on the views that have subviews)
InitHitInputs ==
    /\ layout = InitialLayout
    /\ size_traits = [v \in Views |-> FullSizeTraits(InitialLayout, v)]
    /\ frame = [v \in Views |-> RootFrame]
    /\ global_frame \in [Views -> GlobalFrames]
    /\ global_frame[Root] = RootFrame
    /\ dirty = [v \in Views |-> {}]
    /\ lop = NoLop
    /\ flags \in [Views -> SUBSET ViewFlags]
    /\ \A v \in Views : InitialLayout[v].subviews = <<>> => CLIP_HITTEST \notin flags[v]
    /\ hit = NoHit

\* A hit test of the point p on view v, a view that has subviews
HitTest(v, p, accept_flag, deny_flag) ==
    /\ layout[v].subviews # <<>>
    /\ hit' = [view |-> v, p |-> p, accept_flag |-> accept_flag,
               deny_flag |-> deny_flag,
               result |-> hit_test(layout, global_frame, flags, v, p,
                                   accept_flag, deny_flag)]
    /\ UNCHANGED flags

NextHit ==
    \E v \in Views, p \in HitPoints, deny_flag \in {{}, {DENY_MOUSE_INPUT}} :
        HitTest(v, p, {ACCEPT_MOUSE_INPUT}, deny_flag)

(***************************************************************************)
(* Deferred invocations (uicore/invocation.rs).                            *)
(***************************************************************************)
MaxClosures == 4

MaxTurns == 3

Closures == 1..MaxClosures

\* A faulty variant of invoke_on_update_inner that looks at the queue after
\* it has pushed the closure
invoke_on_update_inner_push_first(queue, tasks, f) ==
    LET pushed == Append(queue, f)
    IN [queue |-> pushed,
        tasks |-> IF pushed = <<>> THEN tasks + 1 ELSE tasks]

\* invoke_on_update_inner: wm.invoke(process_pending_invocations) when the
\* queue is empty, then push_back_node(f)
\* A faulty variant of invoke_on_update_inner that puts the closure at the
\* front of the queue
invoke_on_update_inner_push_front(queue, tasks, f) ==
    [queue |-> <<f>> \o queue,
     tasks |-> IF queue = <<>> THEN tasks + 1 ELSE tasks]

invoke_on_update_inner(queue, tasks, f) ==
    [queue |-> Append(queue, f),
     tasks |-> IF queue = <<>> THEN tasks + 1 ELSE tasks]

InitInv ==
    /\ dispatches = <<>>
    /\ main_thread_tasks = 0
    /\ mode = "idle"
    /\ running = None
    /\ registered = [f \in Closures |-> 0]
    /\ ran = [f \in Closures |-> 0]
    /\ turn = 0

\* The main thread starts a turn that is not a drain (an event handler or
\* another task)
TurnBegin ==
    /\ mode = "idle"
    /\ turn < MaxTurns
    /\ mode' = "turn"
    /\ turn' = turn + 1
    /\ UNCHANGED <<dispatches, main_thread_tasks, running, registered, ran>>

TurnEnd ==
    /\ mode = "turn"
    /\ mode' = "idle"
    /\ UNCHANGED <<dispatches, main_thread_tasks, running, registered, ran, turn>>

\* invoke_on_update(wm, f), called by the code of a turn or by the closure
\* that the drain is executing
InvokeOnUpdate(f) ==
    /\ mode \in {"turn", "closure"}
    /\ registered[f] = 0
    /\ \A g \in Closures : g < f => registered[g] # 0
    /\ LET r == invoke_on_update_inner(dispatches, main_thread_tasks, f)
       IN /\ dispatches' = r.queue
          /\ main_thread_tasks' = r.tasks
    /\ registered' = [registered EXCEPT ![f] = turn]
    /\ UNCHANGED <<mode, running, ran, turn>>

\* The main thread takes a process_pending_invocations task off its queue
\* and enters the loop
ProcessPendingInvocationsBegin ==
    /\ mode = "idle"
    /\ main_thread_tasks > 0
    /\ main_thread_tasks' = main_thread_tasks - 1
    /\ mode' = "drain"
    /\ turn' = turn + 1
    /\ UNCHANGED <<dispatches, running, registered, ran>>

\* One iteration of the loop: pop_front_node, then call the closure
ProcessPendingInvocationsCall ==
    /\ mode = "drain"
    /\ dispatches # <<>>
    /\ running' = Head(dispatches)
    /\ dispatches' = Tail(dispatches)
    /\ ran' = [ran EXCEPT ![Head(dispatches)] = turn]
    /\ mode' = "closure"
    /\ UNCHANGED <<main_thread_tasks, registered, turn>>

\* The closure returns into the loop
ClosureReturn ==
    /\ mode = "closure"
    /\ mode' = "drain"
    /\ running' = None
    /\ UNCHANGED <<dispatches, main_thread_tasks, registered, ran, turn>>

\* pop_front_node finds the queue empty: break
ProcessPendingInvocationsEnd ==
    /\ mode = "drain"
    /\ dispatches = <<>>
    /\ mode' = "idle"
    /\ UNCHANGED <<dispatches, main_thread_tasks, running, registered, ran, turn>>

NextInv ==
    \/ TurnBegin
    \/ TurnEnd
    \/ \E f \in Closures : InvokeOnUpdate(f)
    \/ ProcessPendingInvocationsBegin
    \/ ProcessPendingInvocationsCall
    \/ ClosureReturn
    \/ ProcessPendingInvocationsEnd

(***************************************************************************)
(* The windows and their DPI scales (img.rs 138-180).                      *)
(***************************************************************************)
NumWnds == 3

MaxWndTasks == 2

Wnds == 1..NumWnds

NoWnd == [open |-> FALSE, dpi_scale |-> F0_0, state |-> 0]

\* The scales windows are created with and change to
WndScaleInputs == ScaleInputs \cup {F4_0}

InitWnd ==
    /\ wnds = [w \in Wnds |-> NoWnd]
    /\ wnd_tasks = <<>>

\* A window is created with the scale x and uicore calls handle_new_wnd
HandleNewWnd(w, x) ==
    /\ panic = ""
    /\ ~wnds[w].open
    /\ IF ~DpiScale_new(x).ok
       THEN /\ panic' = "called Result::unwrap() on an Err value: OutOfRange"
            /\ wnds' = [wnds EXCEPT ![w] = [open |-> TRUE, dpi_scale |-> x, state |-> 0]]
            /\ UNCHANGED cache
       ELSE /\ wnds' = [wnds EXCEPT ![w] = [open |-> TRUE, dpi_scale |-> x,
                                            state |-> DpiScale_new(x).bits]]
            /\ cache' = dpi_scale_add_ref(cache, DpiScale_new(x).bits)
            /\ UNCHANGED panic
    /\ last' = [NoLast EXCEPT !.op = "handle_new_wnd", !.wnd = w, !.x = x]
    /\ UNCHANGED wnd_tasks

\* A faulty variant of DpiScaleChanged that keeps the reference of the old
\* scale
DpiScaleChangedKeepOld(w, x) ==
    /\ panic = ""
    /\ wnds[w].open
    /\ IF ~DpiScale_new(x).ok
       THEN /\ panic' = "called Result::unwrap() on an Err value: OutOfRange"
            /\ wnds' = [wnds EXCEPT ![w].dpi_scale = x]
            /\ UNCHANGED cache
       ELSE LET new_dpi_scale == DpiScale_new(x).bits
            IN /\ cache' = IF new_dpi_scale # wnds[w].state
                           THEN dpi_scale_add_ref(cache, new_dpi_scale)
                           ELSE cache
               /\ wnds' = [wnds EXCEPT ![w].dpi_scale = x, ![w].state = new_dpi_scale]
               /\ UNCHANGED panic
    /\ last' = [NoLast EXCEPT !.op = "dpi_scale_changed", !.wnd = w, !.x = x,
                              !.dpi_scale = wnds[w].state]
    /\ UNCHANGED wnd_tasks

\* A faulty variant of DpiScaleChanged that releases the old scale before it
\* adds the reference of the new one
DpiScaleChangedReleaseFirst(w, x) ==
    /\ panic = ""
    /\ wnds[w].open
    /\ IF ~DpiScale_new(x).ok
       THEN /\ panic' = "called Result::unwrap() on an Err value: OutOfRange"
            /\ wnds' = [wnds EXCEPT ![w].dpi_scale = x]
            /\ UNCHANGED cache
       ELSE LET new_dpi_scale == DpiScale_new(x).bits
            IN /\ cache' = IF new_dpi_scale # wnds[w].state
                           THEN dpi_scale_add_ref(
                                    dpi_scale_release(cache, wnds[w].state),
                                    new_dpi_scale)
                           ELSE cache
               /\ wnds' = [wnds EXCEPT ![w].dpi_scale = x, ![w].state = new_dpi_scale]
               /\ UNCHANGED panic
    /\ last' = [NoLast EXCEPT !.op = "dpi_scale_changed", !.wnd = w, !.x = x,
                              !.dpi_scale = wnds[w].state]
    /\ UNCHANGED wnd_tasks

\* The window system notifies an open window of its scale, now x, changed
\* or not, and the handler subscribed by handle_new_wnd runs
DpiScaleChanged(w, x) ==
    /\ panic = ""
    /\ wnds[w].open
    /\ IF ~DpiScale_new(x).ok
       THEN /\ panic' = "called Result::unwrap() on an Err value: OutOfRange"
            /\ wnds' = [wnds EXCEPT ![w].dpi_scale = x]
            /\ UNCHANGED cache
       ELSE LET new_dpi_scale == DpiScale_new(x).bits
            IN /\ cache' = IF new_dpi_scale # wnds[w].state
                           THEN dpi_scale_release(
                                    dpi_scale_add_ref(cache, new_dpi_scale),
                                    wnds[w].state)
                           ELSE cache
               /\ wnds' = [wnds EXCEPT ![w].dpi_scale = x, ![w].state = new_dpi_scale]
               /\ UNCHANGED panic
    /\ last' = [NoLast EXCEPT !.op = "dpi_scale_changed", !.wnd = w, !.x = x,
                              !.dpi_scale = wnds[w].state]
    /\ UNCHANGED wnd_tasks

\* A window is destroyed: ListenerState is dropped, and its drop hands the
\* release of the scale to wm.invoke
WndClose(w) ==
    /\ panic = ""
    /\ wnds[w].open
    /\ Len(wnd_tasks) < MaxWndTasks
    /\ wnds' = [wnds EXCEPT ![w] = NoWnd]
    /\ wnd_tasks' = Append(wnd_tasks, wnds[w].state)
    /\ last' = [NoLast EXCEPT !.op = "wnd_close", !.wnd = w,
                              !.dpi_scale = wnds[w].state]
    /\ UNCHANGED <<cache, panic>>

\* The main thread runs the closure of a destroyed window
WndReleaseTask ==
    /\ panic = ""
    /\ wnd_tasks # <<>>
    /\ wnd_tasks' = Tail(wnd_tasks)
    /\ IF dpi_scale_find(cache, Head(wnd_tasks)) = None
       THEN /\ panic' = "unknown DPI scale value"
            /\ UNCHANGED cache
       ELSE /\ cache' = dpi_scale_release(cache, Head(wnd_tasks))
            /\ UNCHANGED panic
    /\ last' = [NoLast EXCEPT !.op = "wnd_release_task",
                              !.dpi_scale = Head(wnd_tasks)]
    /\ UNCHANGED wnds

NextWnd ==
    \/ \E w \in Wnds, x \in WndScaleInputs : HandleNewWnd(w, x)
    \/ \E w \in Wnds, x \in WndScaleInputs : DpiScaleChanged(w, x)
    \/ \E w \in Wnds : WndClose(w)
    \/ WndReleaseTask

Init == InitCache /\ InitLayout /\ InitHit /\ InitInv /\ InitCtx /\ InitWnd

InitCalls == InitCache /\ InitFrame /\ InitHit /\ InitInv /\ InitCtx /\ InitWnd

InitCtxCalls == InitCache /\ InitFrame /\ InitHit /\ InitInv /\ InitCtxInputs /\ InitWnd

InitHitTest == InitCache /\ InitHitInputs /\ InitInv /\ InitCtx /\ InitWnd

Next == NextCache /\ UNCHANGED <<layoutVars, hitVars, invVars, ctxVars, wndVars>>

Spec == Init /\ [][Next]_vars

SpecSize == Init /\ [][NextSize /\ UNCHANGED <<cacheVars, hitVars, invVars, ctxVars, wndVars>>]_vars

SpecPos == Init /\ [][NextPos /\ UNCHANGED <<cacheVars, hitVars, invVars, ctxVars, wndVars>>]_vars

InitFlush == InitCache /\ InitFlushInputs /\ InitHit /\ InitInv /\ InitCtx /\ InitWnd

\* One position-dispatch pass after a down phase, on either tree
SpecFlush ==
    InitFlush /\ [][NextFlush /\ UNCHANGED <<cacheVars, hitVars, invVars, ctxVars, wndVars>>]_vars

SpecFrame == InitCalls /\ [][NextFrame /\ UNCHANGED <<cacheVars, hitVars, invVars, ctxVars, wndVars>>]_vars

SpecHit == InitHitTest /\ [][NextHit /\ UNCHANGED <<cacheVars, layoutVars, invVars, ctxVars, wndVars>>]_vars

SpecInv == Init /\ [][NextInv /\ UNCHANGED <<cacheVars, layoutVars, hitVars, ctxVars, wndVars>>]_vars

\* The state after a window of scale 1.0 was opened: that scale is
\* registered once, the scale 2.0 is not
InitImgCache ==
    /\ cache = dpi_scale_add_ref(EmptyCache, to_bits(F1_0))
    /\ himg = [i \in Imgs |-> [refs |-> 0, img_ptr |-> None]]
    /\ stack = <<>>
    /\ prev = [i \in Imgs |-> [s \in DpiScales |-> NoBmp]]
    /\ net = [s \in DpiScales |-> IF s = to_bits(F1_0) THEN 1 ELSE 0]
    /\ last = NoLast
    /\ panic = ""

InitImg == InitImgCache /\ InitLayout /\ InitHit /\ InitInv /\ InitCtx /\ InitWnd

SpecImg ==
    InitImg /\ [][NextImg /\ UNCHANGED <<layoutVars, hitVars, invVars, ctxVars, wndVars>>]_vars

SpecRestart ==
    InitCalls /\ [][NextRestart /\ UNCHANGED <<cacheVars, hitVars, invVars, ctxVars, wndVars>>]_vars

SpecWnd ==
    Init /\ [][NextWnd /\ UNCHANGED <<himg, stack, prev, net,
                                     layoutVars, hitVars, invVars, ctxVars>>]_vars

\* The main thread runs every task that wm.invoke enqueued
FairWnd == WF_<<cache, panic, last, wnds, wnd_tasks>>(WndReleaseTask)

SpecWndFair == SpecWnd /\ FairWnd

SpecCtx == InitCtxCalls /\ [][NextCtx /\ UNCHANGED <<cacheVars, hitVars, invVars, wndVars>>]_vars

\* The main thread runs every task that wm.invoke enqueued, and the code it
\* executes (a turn, the loop of the drain, a closure) runs to its end.
FairInv ==
    /\ SF_invVars(ProcessPendingInvocationsBegin)
    /\ WF_invVars(ProcessPendingInvocationsCall)
    /\ WF_invVars(ClosureReturn)
    /\ WF_invVars(ProcessPendingInvocationsEnd)
    /\ WF_invVars(TurnEnd)

SpecInvFair == SpecInv /\ FairInv

(***************************************************************************)
(* Properties of the cache.                                                *)
(***************************************************************************)
\* Cache::dpi_scales[..].ref_count of a scale, 0 when it has no CacheDpiScale
RefCount(c, s) ==
    LET i == dpi_scale_find(c, s)
    IN IF i = None THEN 0 ELSE c.dpi_scales[i].ref_count

\* How often a pointer occurs in a list
Occurrences(list, p) == Cardinality({k \in 1..Len(list) : list[k] = p})

Range(list) == {list[k] : k \in 1..Len(list)}

\* C3: a lookup of image I at scale S1 returns a bitmap rasterized from I
\* for S1: on a hit the bitmap of the CacheBmp keyed by exactly (I, S1),
\* never one cached for another scale or another image; on a miss a fresh
\* rasterization of I at S1.
C3_LookupNeverCrossesScales ==
    (last.op \in {"new_bmp", "new_bmp_end"} /\ last.bmp # NoBmp) =>
        /\ last.bmp.src = last.img
        /\ to_bits(last.bmp.dpi) = last.dpi_scale
        /\ last.hit =>
            /\ last.entry.dpi_scale = last.dpi_scale
            /\ last.entry.img = himg[last.img].img_ptr
            /\ last.entry.bmp = last.bmp

\* A hit for an image that also has a bitmap cached for another scale.
C3_Witness ==
    /\ last.op = "new_bmp" /\ last.hit
    /\ \E p \in DOMAIN cache.bmps :
          /\ cache.bmps[p].img = last.entry.img
          /\ cache.bmps[p].dpi_scale # last.dpi_scale

\* C4: a dpi_scale_release that takes the ref count of S2 to 0 removes every
\* CacheBmp keyed by S2, of every image; every CacheBmp keyed by another
\* scale stays as it was and is what a lookup at its scale finds; the ref
\* counts of the other scales are unchanged.
C4_ReleaseStep(s2) ==
    (last'.op = "release" /\ last'.dpi_scale = s2 /\ panic' = ""
        /\ RefCount(cache, s2) = 1) =>
        /\ BmpsOfScale(cache', s2) = {}
        /\ dpi_scale_find(cache', s2) = None
        /\ \A img \in DOMAIN cache'.imgs : img_find_bmp(cache', img, s2) = None
        /\ DOMAIN cache'.imgs = DOMAIN cache.imgs
        /\ \A p \in DOMAIN cache.bmps :
              cache.bmps[p].dpi_scale # s2 =>
                  /\ p \in DOMAIN cache'.bmps
                  /\ cache'.bmps[p] = cache.bmps[p]
        /\ \A s1 \in DpiScales \ {s2} :
              /\ RefCount(cache', s1) = RefCount(cache, s1)
              /\ \A img \in DOMAIN cache.imgs :
                    img_find_bmp(cache', img, s1) = img_find_bmp(cache, img, s1)

C4_LastReleaseRemovesOnlyItsScale ==
    [][\A s2 \in DpiScales : C4_ReleaseStep(s2)]_vars

\* The last release of a scale removed bitmaps of it, and bitmaps of the
\* other scale are still cached.
C4_Witness ==
    /\ last.op = "release" /\ last.zero /\ last.removed >= 2 /\ panic = ""
    /\ \E p \in DOMAIN cache.bmps : cache.bmps[p].dpi_scale # last.dpi_scale

\* C5: dpi_scale_find(s) is Some exactly when add_ref(s) was called more
\* often than release(s), there is then exactly one CacheDpiScale of s, and
\* its ref_count is the difference; a release that is not the last one
\* leaves the cached bitmaps as they are, the last one removes the
\* CacheDpiScale and every CacheBmp of the scale.
C5_Counted ==
    \A s \in DpiScales :
        /\ (dpi_scale_find(cache, s) # None) <=> (net[s] > 0)
        /\ Cardinality({i \in 1..Len(cache.dpi_scales) :
                            cache.dpi_scales[i].dpi_scale = s})
               = IF net[s] > 0 THEN 1 ELSE 0
        /\ RefCount(cache, s) = net[s]

C5_ReleaseStep(s) ==
    (last'.op = "release" /\ last'.dpi_scale = s /\ panic' = "") =>
        IF net[s] > 1
        THEN /\ cache'.bmps = cache.bmps
             /\ cache'.imgs = cache.imgs
             /\ dpi_scale_find(cache', s) # None
             /\ cache'.dpi_scales[dpi_scale_find(cache', s)].bmps
                    = cache.dpi_scales[dpi_scale_find(cache, s)].bmps
        ELSE /\ dpi_scale_find(cache', s) = None
             /\ BmpsOfScale(cache', s) = {}

C5_ScaleIsReferenceCounted ==
    []C5_Counted /\ [][\A s \in DpiScales : C5_ReleaseStep(s)]_vars

\* A scale registered twice and released once, its bitmaps still cached.
C5_Witness ==
    /\ last.op = "release" /\ ~last.zero /\ panic = ""
    /\ net[last.dpi_scale] = 1
    /\ last.removed >= 1
    /\ Cardinality(BmpsOfScale(cache, last.dpi_scale)) = last.removed

\* C6: every CacheBmp refers to an allocated CacheImg, which is that of a
\* live handle, and to a registered scale (ref_count >= 1); right after the
\* last drop of an image no CacheBmp holds a bitmap of it, and right after
\* the last release of a scale no CacheBmp is keyed by it.
C6_BmpOnlyWhileImgAndScaleLive ==
    /\ \A p \in DOMAIN cache.bmps :
          /\ cache.bmps[p].img \in DOMAIN cache.imgs
          /\ \E i \in Imgs : /\ himg[i].refs >= 1
                             /\ himg[i].img_ptr = cache.bmps[p].img
                             /\ cache.bmps[p].bmp.src = i
          /\ RefCount(cache, cache.bmps[p].dpi_scale) >= 1
          /\ net[cache.bmps[p].dpi_scale] >= 1
    /\ (last.op = "drop" /\ last.zero) =>
          \A p \in DOMAIN cache.bmps : cache.bmps[p].bmp.src # last.img
    /\ (last.op = "release" /\ last.zero) =>
          \A p \in DOMAIN cache.bmps : cache.bmps[p].dpi_scale # last.dpi_scale

\* The last drop of an image removed two bitmaps, and the other image's
\* bitmaps are still cached.
C6_Witness ==
    /\ last.op = "drop" /\ last.zero /\ last.removed >= 2
    /\ cache.bmps # <<>>

\* C7: every allocated CacheBmp is exactly once in the list of its own
\* CacheImg and in no other image's list, exactly once in the list of its
\* own CacheDpiScale and in no other scale's list; no list holds a
\* deallocated CacheBmp; the image lists together, the scale lists together
\* and the allocated CacheBmps are the same set.
C7_DualIndexConsistent ==
    LET inImg == UNION {Range(cache.imgs[q].bmps) : q \in DOMAIN cache.imgs}
        inScale == UNION {Range(cache.dpi_scales[k].bmps) :
                              k \in 1..Len(cache.dpi_scales)}
    IN /\ inImg = DOMAIN cache.bmps
       /\ inScale = DOMAIN cache.bmps
       /\ \A p \in DOMAIN cache.bmps :
             /\ \A q \in DOMAIN cache.imgs :
                   Occurrences(cache.imgs[q].bmps, p)
                       = IF q = cache.bmps[p].img THEN 1 ELSE 0
             /\ \A k \in 1..Len(cache.dpi_scales) :
                   Occurrences(cache.dpi_scales[k].bmps, p)
                       = IF cache.dpi_scales[k].dpi_scale = cache.bmps[p].dpi_scale
                         THEN 1 ELSE 0
             /\ cache.bmps[p].img \in DOMAIN cache.imgs
             /\ dpi_scale_find(cache, cache.bmps[p].dpi_scale) # None

\* Three bitmaps of two images and two scales are left after a release
\* removed others.
C7_Witness ==
    /\ last.op = "release" /\ last.zero /\ last.removed >= 1
    /\ Cardinality(DOMAIN cache.bmps) >= 2
    /\ \E p, q \in DOMAIN cache.bmps : cache.bmps[p].img # cache.bmps[q].img

\* C8: when new_bmp(I, S) returned a bitmap with S registered, and since
\* then S was not released to zero and I not dropped, the next new_bmp(I, S)
\* returns that same bitmap from the cache without invoking Img::new_bmp.
C8_SecondLookupHits ==
    (last.op = "new_bmp" /\ panic = "" /\ last.expected # NoBmp) =>
        /\ last.hit
        /\ ~last.raster
        /\ last.bmp = last.expected

\* The second lookup of a pair whose first lookup rasterized.
C8_Witness ==
    /\ last.op = "new_bmp" /\ last.hit /\ last.expected # NoBmp
    /\ last.bmp = last.expected

\* C9: new_bmp for a scale that is not registered when it is called invokes
\* Img::new_bmp (every time), and when the scale is not registered as
\* Img::new_bmp returns, the bitmap is returned without a CacheBmp being
\* inserted: the Cache is what it was; the call creates no CacheBmp on its
\* way in either.
C9_Rasterizes ==
    (last.op = "new_bmp" /\ panic = "" /\ ~last.reg_begin) =>
        (last.raster /\ ~last.hit)

C9_Step ==
    /\ (last'.op = "new_bmp_end" /\ ~last'.reg_end) => cache' = cache
    /\ (last'.op = "new_bmp" /\ ~last'.reg_begin) =>
          /\ cache'.bmps = cache.bmps
          /\ cache'.dpi_scales = cache.dpi_scales

C9_UnregisteredScaleIsNeverCached ==
    []C9_Rasterizes /\ [][C9_Step]_vars

\* An uncached return for an image that has a bitmap of another scale cached.
C9_Witness ==
    /\ last.op = "new_bmp_end" /\ ~last.reg_end
    /\ cache.bmps # <<>>
    /\ BmpsOfImg(cache, himg[last.img].img_ptr) # {}

\* f32 values of every class: zeros, a subnormal, normal values of both
\* signs, infinities and a NaN
C23_Samples ==
    {F32(sg, e, m) : sg \in {0, 1}, e \in {0, 1, 127, 128, 254, 255},
                     m \in {0, 1, 4194304}}

\* DpiScale::new is Ok exactly for the positive finite values
C23_NewIsOkForPositiveFinite ==
    \A v \in C23_Samples :
        DpiScale_new(v).ok <=>
            (v.sign = 0 /\ v.exp < 255 /\ (v.exp > 0 \/ v.man > 0))

\* new_bmp given a scale that DpiScale::new rejects neither ends the program
\* nor changes the cache
C23_Step ==
    (last'.op = "new_bmp" /\ ~DpiScale_new(last'.x).ok
        /\ \A k \in 1..Len(stack) : stack[k].img # last'.img) =>
        /\ panic' = ""
        /\ cache' = cache

\* C23: a scale that is not finite or not positive is rejected with
\* OutOfRange rather than by a panic: DpiScale::new returns Err for it and
\* Ok for every positive finite value, and new_bmp given such a scale does
\* not end the program and leaves the cache unchanged.
C23_OutOfRangeScaleDoesNotPanic ==
    []C23_NewIsOkForPositiveFinite /\ [][C23_Step]_vars

\* The unwrap of Err(OutOfRange): when new_bmp is given a scale that
\* DpiScale::new rejects, on an image that is not being rasterized, the
\* program ends and the cache is unchanged
C23_PanicStep ==
    (last'.op = "new_bmp" /\ ~DpiScale_new(last'.x).ok
        /\ \A k \in 1..Len(stack) : stack[k].img # last'.img) =>
        /\ panic' = "called Result::unwrap() on an Err value: OutOfRange"
        /\ cache' = cache

C23_OutOfRangeScalePanics ==
    []C23_NewIsOkForPositiveFinite /\ [][C23_PanicStep]_vars

\* The program ended in new_bmp(0.0) while the cache holds a bitmap
C23_Witness ==
    /\ panic = "called Result::unwrap() on an Err value: OutOfRange"
    /\ last.op = "new_bmp" /\ last.x = F0_0
    /\ DOMAIN cache.bmps # {}

\* No CacheDpiScale has a ref_count below one
C22_RefCountsArePositive ==
    \A i \in 1..Len(cache.dpi_scales) : cache.dpi_scales[i].ref_count >= 1

\* dpi_scale_release of a scale that was released as often as it was added
\* ends the program and leaves the cache as it is
C22_Step ==
    (last'.op = "release" /\ net[last'.dpi_scale] = 0) =>
        /\ panic' = "unknown DPI scale value"
        /\ cache' = cache

\* C22: dpi_scale_release for a scale that is not registered is a fatal
\* error, not a silent no-op, and no ref count ever goes below zero.
C22_ReleaseOfUnregisteredScalePanics ==
    []C22_RefCountsArePositive /\ [][C22_Step]_vars

\* The program ended in the release of a scale that is not registered while
\* another scale is
C22_Witness ==
    /\ panic = "unknown DPI scale value"
    /\ last.op = "release"
    /\ net[last.dpi_scale] = 0
    /\ cache.dpi_scales # <<>>

\* A new_bmp call made while another image is rasterized does not fail on
\* the borrow of CACHE, and the return of Img::new_bmp for a registered
\* scale adds the CacheBmp of its image and scale and keeps every CacheBmp
\* that the calls made meanwhile have added
C21_Step ==
    /\ (last'.op = "new_bmp" /\ stack # <<>>
            /\ \A k \in 1..Len(stack) : stack[k].img # last'.img) =>
          panic' # "already borrowed: BorrowMutError"
    /\ (last'.op = "new_bmp_end" /\ last'.reg_end) =>
          /\ \E p \in DOMAIN cache'.bmps \ DOMAIN cache.bmps :
                cache'.bmps[p] = [img |-> stack[Len(stack)].img_ptr,
                                  dpi_scale |-> last'.dpi_scale,
                                  bmp |-> last'.bmp]
          /\ \A p \in DOMAIN cache.bmps :
                p \in DOMAIN cache'.bmps /\ cache'.bmps[p] = cache.bmps[p]

\* C21: CACHE is not borrowed while Img::new_bmp runs: a new_bmp call for
\* another image made from inside the rasterization completes without a
\* borrow error and may add its own CacheBmp, and the outer call still adds
\* the bitmap of its image and scale when the scale is registered.
C21_NestedLookupOfAnotherImage == [][C21_Step]_vars

\* The outer of two nested lookups has returned: the inner one added the
\* CacheBmp of its image before, and both are cached
C21_Witness ==
    /\ last.op = "new_bmp_end" /\ last.reg_end
    /\ stack = <<>>
    /\ \E p \in DOMAIN cache.bmps :
          /\ cache.bmps[p].bmp = last.bmp
          /\ cache.bmps[p].img = himg[last.img].img_ptr
    /\ \E j \in Imgs \ {last.img} :
          /\ prev[j][last.dpi_scale].serial # 0
          /\ \E q \in DOMAIN cache.bmps :
                /\ cache.bmps[q].img = himg[j].img_ptr
                /\ cache.bmps[q].bmp = prev[j][last.dpi_scale]

\* No image is rasterized by two new_bmp calls at once
C20_NoNestedRasterization ==
    \A j, k \in 1..Len(stack) : stack[j].img = stack[k].img => j = k

\* A new_bmp call on an image that one of the new_bmp calls in progress is
\* rasterizing ends the program and leaves the cache and the calls in
\* progress as they are
C20_ReentrantStep ==
    (last'.op = "new_bmp" /\ \E k \in 1..Len(stack) : stack[k].img = last'.img) =>
        /\ panic' = "cannot call new_bmp recursively on the same image"
        /\ ~last'.raster /\ ~last'.hit
        /\ stack' = stack
        /\ cache' = cache

\* C20: new_bmp on an image whose rasterization by new_bmp is still in
\* progress is rejected with a fatal error, whatever scale it asks for, and
\* starts no nested rasterization of that image.
C20_ReentrantNewBmpIsRejected ==
    []C20_NoNestedRasterization /\ [][C20_ReentrantStep]_vars

\* The program ended in a new_bmp call on the outer of two images that are
\* being rasterized, while a bitmap of that image is cached
C20_Witness ==
    /\ panic = "cannot call new_bmp recursively on the same image"
    /\ Len(stack) = 2
    /\ last.op = "new_bmp" /\ last.img = stack[1].img
    /\ BmpsOfImg(cache, himg[last.img].img_ptr) # {}

(***************************************************************************)
(* Properties of the up phase.                                             *)
(***************************************************************************)
\* C2: when every view whose cached SizeTraits are out of date carries
\* SIZE_TRAITS with DESCENDANT_SIZE_TRAITS on all its ancestors, then after
\* update_size_traits on the root the cached SizeTraits of every view are
\* Layout::size_traits of its subviews' cached SizeTraits, and they are what
\* a full bottom-up recomputation yields.
C2_UpPhaseEqualsFullRecomputation ==
    (lop.op = "update_size_traits" /\ lop.pre) =>
        \A v \in Views :
            /\ size_traits[v] = Layout_size_traits(layout[v], size_traits)
            /\ size_traits[v] = FullSizeTraits(layout, v)

\* A pass that recomputed the root because of a changed grandchild and
\* another changed subview.
C2_Witness ==
    /\ lop.op = "update_size_traits" /\ lop.pre /\ lop.changed
    /\ Len(lop.calls) = 4

(***************************************************************************)
(* Properties of the down phase and of the position-dispatch pass.         *)
(***************************************************************************)
\* C1: when before flush_position_event on the root every view carrying
\* POSITION_EVENT or DESCENDANT_POSITION_EVENT had DESCENDANT_POSITION_EVENT
\* on all its ancestors and every unflagged view had a correct global_frame,
\* then right after the pass the global_frame of every view is its frame
\* translated by the sum of the frame origins of its ancestors.
C1_GlobalFrameAfterDispatch ==
    (lop.op = "flush_position_event" /\ lop.pre) =>
        \A v \in Views : global_frame[v] = ExpectedGlobalFrame(layout, frame, v)

\* A pass that moved a view below a superview whose origin is not (0,0)
C1_Witness ==
    /\ lop.op = "flush_position_event" /\ lop.pre
    /\ frame[2].min # <<0, 0>>
    /\ frame[4].min # <<0, 0>>
    /\ global_frame[4] = BoxTranslate(frame[4], frame[2].min)
    /\ 4 \in {lop.calls[k] : k \in 1..Len(lop.calls)}

\* The step of a set_subview_frame call that keeps the origin of the frame
\* of view v and changes its size
C10_SizeOnlyStep(v) ==
    /\ lop'.op = "set_subview_frame" /\ lop'.view = v
    /\ frame'[v].min = frame[v].min
    /\ BoxSize(frame'[v]) # BoxSize(frame[v])

\* C10 as stated: a set_subview_frame call with a frame of equal min and
\* different size sets SUBVIEWS_FRAME on the subview and does not set its
\* POSITION_EVENT.
C10_SizeChangeLeavesPositionEvent ==
    [][\A v \in Views :
          C10_SizeOnlyStep(v) =>
              /\ SUBVIEWS_FRAME \in dirty'[v]
              /\ POSITION_EVENT \in dirty'[v] => POSITION_EVENT \in dirty[v]]_vars

\* C10, as the code has it: a set_subview_frame call with a frame of equal
\* min and different size sets SUBVIEWS_FRAME and POSITION_EVENT on the
\* subview, and DESCENDANT_SUBVIEWS_FRAME and DESCENDANT_POSITION_EVENT on
\* its superview.
C10_SizeChangeSetsBothFlags ==
    [][\A v \in Views :
          C10_SizeOnlyStep(v) =>
              /\ {SUBVIEWS_FRAME, POSITION_EVENT} \subseteq dirty'[v]
              /\ {DESCENDANT_SUBVIEWS_FRAME, DESCENDANT_POSITION_EVENT}
                    \subseteq dirty'[Superview(layout, v)]]_vars

\* A call that changed only the size of a frame, on a view that carried
\* neither flag before
C10_Witness ==
    /\ lop.op = "set_subview_frame"
    /\ lop.view # None
    /\ lop.old_frame.min = frame[lop.view].min
    /\ BoxSize(lop.old_frame) # BoxSize(frame[lop.view])
    /\ lop.old_dirty \cap {SUBVIEWS_FRAME, POSITION_EVENT} = {}
    /\ {SUBVIEWS_FRAME, POSITION_EVENT} \subseteq dirty[lop.view]

\* The views the position-dispatch pass has to call back: those carrying
\* POSITION_EVENT or below a view carrying it, when the pass reaches them
\* through flagged ancestors.
C11_CalledBack ==
    {v \in Views :
        \E u \in {v} \cup Ancestors(layout, v) :
            /\ POSITION_EVENT \in dirty[u]
            /\ \A a \in Ancestors(layout, u) :
                  dirty[a] \cap {POSITION_EVENT, DESCENDANT_POSITION_EVENT} # {}}

\* C11: a flush_position_event pass on the root calls the position listener
\* exactly once for every view carrying POSITION_EVENT or below a view
\* carrying it, and not at all for the other views.
C11_PositionCalledExactlyOnce ==
    [][lop'.op = "flush_position_event" =>
          \A v \in Views :
              Cardinality({k \in 1..Len(lop'.calls) : lop'.calls[k] = v})
                  = IF v \in C11_CalledBack THEN 1 ELSE 0]_vars

\* A pass that called back view 2 and its subview 4, whose own frame had not
\* changed, and did not call back the root and view 3
C11_Witness ==
    /\ lop.op = "flush_position_event"
    /\ lop.flagged = {2}
    /\ lop.calls = <<2, 4>>

(***************************************************************************)
(* More properties of the up phase.                                        *)
(***************************************************************************)
\* C12: update_size_traits on the root right after update_size_traits on the
\* root, with no mutation in between, invokes Layout::size_traits on no
\* view, returns false and leaves every cached SizeTraits and every dirty
\* flag as the first run left them.
C12_UpPhaseIdempotent ==
    [][(lop.op = "update_size_traits" /\ lop'.op = "update_size_traits") =>
          /\ lop'.calls = <<>>
          /\ ~lop'.changed
          /\ size_traits' = size_traits
          /\ dirty' = dirty]_vars

\* A second run right after a run that recomputed the root and changed it
C12_Witness ==
    /\ lop.op = "update_size_traits"
    /\ lop.again
    /\ lop.calls = <<>>
    /\ size_traits[Root] # SizeTraitsDefault

\* C13: one update_size_traits pass on the root invokes Layout::size_traits
\* at most once on any view.
C13_SizeTraitsAtMostOncePerView ==
    lop.op = "update_size_traits" =>
        \A v \in Views :
            Cardinality({k \in 1..Len(lop.calls) : lop.calls[k] = v}) <= 1

\* A pass that recomputed a view, its superview and the root, one after the
\* other
C13_Witness ==
    /\ lop.op = "update_size_traits"
    /\ lop.calls = <<4, 2, 1>>

(***************************************************************************)
(* Properties of hit testing.                                              *)
(***************************************************************************)
\* What hit_test answers on view v for the arguments of the last call
C14_Match(v) ==
    hit_test(layout, global_frame, flags, v, hit.p, hit.accept_flag, hit.deny_flag)

\* Two subviews of the view of the last call, the second later in the list,
\* that both yield a match
C14_BothMatch(i, j) ==
    /\ hit.view # None
    /\ i \in 1..Len(layout[hit.view].subviews)
    /\ j \in 1..Len(layout[hit.view].subviews)
    /\ i < j
    /\ C14_Match(layout[hit.view].subviews[i]) # None
    /\ C14_Match(layout[hit.view].subviews[j]) # None

\* C14 as stated: when two sibling views both yield a match for p, hit_test
\* on their superview returns the match of the sibling that is later in the
\* list of subviews.
C14_LaterSiblingWins ==
    \A i, j \in 1..2 :
        C14_BothMatch(i, j) => hit.result = C14_Match(layout[hit.view].subviews[j])

\* C14, as the code has it: when two sibling views both yield a match for p
\* and their superview neither carries the deny flag nor carries CLIP_HITTEST
\* with p outside its global_frame, hit_test on the superview returns the
\* match of the sibling that is later in the list of subviews.
C14_LaterSiblingWinsUnlessSkipped ==
    \A i, j \in 1..2 :
        (/\ C14_BothMatch(i, j)
         /\ flags[hit.view] \cap hit.deny_flag = {}
         /\ ~(CLIP_HITTEST \in flags[hit.view]
                /\ ~contains_point(global_frame[hit.view], hit.p)))
            => hit.result = C14_Match(layout[hit.view].subviews[j])

\* A hit test on the root where views 2 and 3 both contain the point and
\* accept it, and view 3 is returned
C14_Witness ==
    /\ hit.view = Root
    /\ C14_BothMatch(1, 2)
    /\ C14_Match(2) = 2
    /\ hit.result = 3

\* The views of the subtree tested by the last hit test that are v or above v
C15_TestedAncestors(v) ==
    {u \in {v} \cup Ancestors(layout, v) :
        u = hit.view \/ hit.view \in Ancestors(layout, u)}

\* C15: hit_test never returns a view that carries the deny flag or lies
\* below a view of the tested subtree that carries it.
C15_DeniedViewsAreNeverReturned ==
    hit.result # None =>
        \A u \in C15_TestedAncestors(hit.result) : flags[u] \cap hit.deny_flag = {}

\* A hit test on the root that passed over view 4, which contains the point
\* and accepts it but lies below the denied view 2, and returned view 3
C15_Witness ==
    /\ hit.view = Root /\ hit.deny_flag = {DENY_MOUSE_INPUT}
    /\ DENY_MOUSE_INPUT \in flags[2]
    /\ contains_point(global_frame[4], hit.p)
    /\ flags[4] = {ACCEPT_MOUSE_INPUT}
    /\ ACCEPT_MOUSE_INPUT \in flags[2]
    /\ contains_point(global_frame[2], hit.p)
    /\ DENY_MOUSE_INPUT \notin flags[3]
    /\ hit.result = 3

\* C16: when a view of the tested subtree carries CLIP_HITTEST and the
\* point lies outside its global_frame, hit_test returns neither that view
\* nor a view below it.
C16_ClippedSubtreeIsSkipped ==
    hit.result # None =>
        \A u \in C15_TestedAncestors(hit.result) :
            ~(CLIP_HITTEST \in flags[u] /\ ~contains_point(global_frame[u], hit.p))

\* A hit test on the root that passed over view 4, which contains the point
\* and accepts it, because view 2 clips and does not contain the point
C16_Witness ==
    /\ hit.view = Root
    /\ CLIP_HITTEST \in flags[2]
    /\ flags[2] \cap hit.deny_flag = {}
    /\ ~contains_point(global_frame[2], hit.p)
    /\ contains_point(global_frame[4], hit.p)
    /\ ACCEPT_MOUSE_INPUT \in flags[4]
    /\ flags[4] \cap hit.deny_flag = {}
    /\ hit.result \notin {2, 4}
    /\ CLIP_HITTEST \notin flags[Root]

\* C17: a view returned by hit_test contains the point in its global_frame
\* and carries the accept flag, and hit_test returns the view it was called
\* on only if none of its subviews yields a match.
C17_SelfOnlyAfterSubviews ==
    hit.result # None =>
        /\ contains_point(global_frame[hit.result], hit.p)
        /\ flags[hit.result] \cap hit.accept_flag # {}
        /\ hit.result = hit.view =>
              \A k \in 1..Len(layout[hit.view].subviews) :
                  C14_Match(layout[hit.view].subviews[k]) = None

\* A hit test that returned a view below the view it was called on, both
\* containing the point and accepting it
C17_Witness ==
    /\ hit.view = Root
    /\ contains_point(global_frame[Root], hit.p)
    /\ ACCEPT_MOUSE_INPUT \in flags[Root]
    /\ flags[Root] \cap hit.deny_flag = {}
    /\ hit.result = 4

(***************************************************************************)
(* Properties of the deferred invocations.                                 *)
(***************************************************************************)
C18_AtMostOnePendingTask == main_thread_tasks <= 1

\* Closures registered in the same turn are run by the same drain
C18_OneDrainPerTurn ==
    \A f, g \in Closures :
        (registered[f] # 0 /\ registered[f] = registered[g]
            /\ ran[f] # 0 /\ ran[g] # 0) => ran[f] = ran[g]

\* C18: at every point at most one process_pending_invocations task is
\* pending on the main-thread queue, also when invoke_on_update is called
\* by a closure that the drain is executing, and the closures registered
\* within one turn are run by a single drain.
C18_Coalescing == C18_AtMostOnePendingTask /\ C18_OneDrainPerTurn

\* The drain executes closure 2, which closure 1 registered from inside the
\* same drain, and closure 2 has registered closure 3: two tasks are pending
C18_Witness ==
    /\ mode = "closure" /\ running = 2
    /\ registered[2] = ran[1] /\ ran[2] = ran[1]
    /\ registered[3] = ran[2]
    /\ main_thread_tasks = 2

C19_TaskPendingWhileQueued ==
    (dispatches # <<>> /\ mode \notin {"drain", "closure"}) => main_thread_tasks >= 1

C19_EveryClosureRuns ==
    \A f \in Closures : (registered[f] # 0) ~> (ran[f] # 0)

\* C19: every closure passed to invoke_on_update is eventually executed
\* when the main thread runs every task enqueued by wm.invoke; whenever the
\* queue of closures is not empty and no drain is executing, a
\* process_pending_invocations task is pending.
C19_NoCancellation == []C19_TaskPendingWhileQueued /\ C19_EveryClosureRuns

\* A turn has registered closures 1 and 2 and has ended, no drain has
\* started, and a task is pending
C19_Witness ==
    /\ mode = "idle"
    /\ dispatches = <<1, 2>>
    /\ registered[1] = registered[2]
    /\ main_thread_tasks = 1

(***************************************************************************)
(* Properties of the LayoutCtx calls.                                      *)
(***************************************************************************)
C24_NotASubview ==
    ctx'.op # "" /\ Superview(layout, ctx'.hview) # ctx'.active_view

C24_Rejected ==
    /\ ctx'.panic = "the view is not a subview"
    /\ frame' = frame
    /\ dirty' = dirty

\* C24: set_subview_frame or subview_size_traits with a view whose
\* superview is not the active view is a fatal contract violation detected
\* before any state is changed: the frame of the view and the dirty flags
\* of all views are as before the call.
C24_ForeignViewIsRejected == [][C24_NotASubview => C24_Rejected]_vars

\* The same in a build with debug assertions
C24_ForeignViewIsRejectedInDebugBuilds ==
    [][(C24_NotASubview /\ debug_assertions) => C24_Rejected]_vars

\* In a build without debug assertions, set_subview_frame on the context of
\* the root for view 4, a subview of view 2, has stored the frame and
\* raised the flags
C24_Witness ==
    /\ ~debug_assertions
    /\ ctx.op = "set_subview_frame" /\ ctx.panic = ""
    /\ ctx.active_view = Root /\ ctx.hview = 4
    /\ frame[4] = ctx.frame
    /\ frame[4] # frame[3]
    /\ POSITION_EVENT \in dirty[4]
    /\ DESCENDANT_POSITION_EVENT \in dirty[Root]
    /\ DESCENDANT_POSITION_EVENT \notin dirty[2]

(***************************************************************************)
(* Properties of the windows' scales.                                      *)
(***************************************************************************)
\* The open windows whose scale is s
C25_OpenWnds(s) ==
    {w \in Wnds : wnds[w].open /\ DpiScale_new(wnds[w].dpi_scale).ok
                   /\ DpiScale_new(wnds[w].dpi_scale).bits = s}

\* The destroyed windows of scale s whose release has not run yet
C25_PendingReleases(s) == {k \in 1..Len(wnd_tasks) : wnd_tasks[k] = s}

C26_OneCacheImgPerHandle ==
    \A i \in Imgs :
        /\ himg[i].refs = 0 => himg[i].img_ptr = None
        /\ himg[i].img_ptr # None =>
              /\ himg[i].img_ptr \in DOMAIN cache.imgs
              /\ \A j \in Imgs \ {i} : himg[j].img_ptr # himg[i].img_ptr

\* The CacheBmps of the images other than the CacheImg p
C26_BmpsOfOthers(c, p) ==
    [q \in {r \in DOMAIN c.bmps : c.bmps[r].img # p} |-> c.bmps[q]]

C26_RefCounts(c) ==
    [k \in 1..Len(c.dpi_scales) |->
        <<c.dpi_scales[k].dpi_scale, c.dpi_scales[k].ref_count>>]

\* What each operation on the handle of image i does to its CacheImg
C26_Step(i) ==
    LET p == himg[i].img_ptr
    IN /\ (last'.op = "new" /\ last'.img = i) =>
             himg'[i].img_ptr = None /\ cache' = cache
       /\ (himg'[i].img_ptr # p /\ himg'[i].img_ptr # None) =>
             last'.op = "new_bmp" /\ last'.img = i /\ p = None
       /\ (last'.op = "new_bmp" /\ last'.img = i /\ panic' = "") =>
             IF p = None
             THEN /\ himg'[i].img_ptr \notin DOMAIN cache.imgs
                  /\ DOMAIN cache'.imgs = DOMAIN cache.imgs \cup {himg'[i].img_ptr}
             ELSE /\ himg'[i].img_ptr = p
                  /\ DOMAIN cache'.imgs = DOMAIN cache.imgs
       /\ (last'.op = "clone" /\ last'.img = i) =>
             /\ himg'[i] = [himg[i] EXCEPT !.refs = @ + 1]
             /\ cache' = cache
       /\ (last'.op = "drop" /\ last'.img = i /\ ~last'.zero) =>
             /\ himg'[i] = [himg[i] EXCEPT !.refs = @ - 1]
             /\ himg'[i].refs >= 1
             /\ cache' = cache
       /\ (last'.op = "drop" /\ last'.img = i /\ last'.zero) =>
             /\ himg[i].refs = 1
             /\ himg'[i] = [refs |-> 0, img_ptr |-> None]
             /\ IF p = None THEN cache' = cache
                ELSE /\ DOMAIN cache'.imgs = DOMAIN cache.imgs \ {p}
                     /\ BmpsOfImg(cache', p) = {}
                     /\ C26_BmpsOfOthers(cache', p) = C26_BmpsOfOthers(cache, p)
                     /\ C26_RefCounts(cache') = C26_RefCounts(cache)

\* C26: a handle has no CacheImg until its first new_bmp, which creates
\* exactly one, also for a scale that is not registered; the clones of a
\* handle share it; dropping a clone while another reference remains keeps
\* it and its bitmaps; dropping the last reference deallocates it and
\* removes its CacheBmps, and leaves the bitmaps of the other images and
\* the ref counts of all scales as they are.
C26_CacheImgLifecycle ==
    []C26_OneCacheImgPerHandle /\ [][\A i \in Imgs : C26_Step(i)]_vars

\* The last reference of an image with a cached bitmap was dropped while
\* another image has a cached bitmap
C26_Witness ==
    /\ last.op = "drop" /\ last.zero /\ last.removed = 1
    /\ DOMAIN cache.bmps # {}

\* new_bmp_uncached calls Img::new_bmp and leaves the cache, the handles and
\* the lookups in progress as they are
C27_Step ==
    last'.op = "new_bmp_uncached" =>
        /\ last'.raster
        /\ cache' = cache
        /\ himg' = himg
        /\ stack' = stack
        /\ panic' = ""

\* new_bmp_uncached can be called on every live handle with every scale
C27_AlwaysUsable ==
    \A i \in Imgs, x \in ScaleInputs :
        (panic = "" /\ himg[i].refs >= 1) => ENABLED NewBmpUncached(i, x)

\* C27: new_bmp_uncached bypasses the cache: it always invokes Img::new_bmp,
\* never reads, creates or modifies a CacheImg, CacheBmp or CacheDpiScale,
\* and is usable in every state, also while new_bmp rasterizes the same
\* image.
C27_UncachedBypassesTheCache == []C27_AlwaysUsable /\ [][C27_Step]_vars

\* new_bmp_uncached has rasterized an image that new_bmp is rasterizing, for
\* a scale whose bitmap of that image is cached
C27_Witness ==
    /\ last.op = "new_bmp_uncached"
    /\ stack # <<>> /\ stack[1].img = last.img
    /\ DpiScale_new(last.x).ok
    /\ \E p \in DOMAIN cache.bmps :
          /\ cache.bmps[p].img = himg[last.img].img_ptr
          /\ cache.bmps[p].dpi_scale = DpiScale_new(last.x).bits
          /\ cache.bmps[p].bmp # last.bmp

(***************************************************************************)
(* Properties of the replacement of a layout during the down phase.        *)
(***************************************************************************)
C28_Is(k, ev, v) ==
    k \in 1..Len(lop.calls) /\ lop.calls[k].ev = ev /\ lop.calls[k].view = v

\* C28: a replacement asked for by LayoutCtx::set_layout is only recorded
\* while arrange runs and the layout is swapped after arrange has returned;
\* after the swap the update_subview_frames call on that view returns
\* without recursing into subviews and without running arrange again, and
\* SUBVIEWS_FRAME was cleared before arrange was invoked.
C28_RestartIsATwoStepCommit ==
    lop.op = "update_subview_frames" =>
        \A k \in 1..Len(lop.calls) :
            LET e == lop.calls[k]
            IN /\ e.ev = "arrange" =>
                     /\ SUBVIEWS_FRAME \notin e.dirty
                     /\ \A j \in 1..Len(lop.calls) : C28_Is(j, "arrange", e.view) => j = k
               /\ e.ev = "ctx.set_layout" =>
                     /\ \E j \in 1..(k - 1) :
                           /\ C28_Is(j, "arrange", e.view)
                           /\ \A m \in j..k : ~C28_Is(m, "arrange returns", e.view)
                           /\ \A m \in j..k : ~C28_Is(m, "set_layout", e.view)
                     /\ C28_Is(k + 1, "arrange returns", e.view)
                     /\ C28_Is(k + 2, "set_layout", e.view)
               /\ e.ev = "set_layout" =>
                     /\ C28_Is(k - 2, "ctx.set_layout", e.view)
                     /\ C28_Is(k - 1, "arrange returns", e.view)
                     /\ C28_Is(k + 1, "return", e.view)

\* The layout of view 2 was replaced after it had given view 4 a frame of
\* another size: view 2 carries SUBVIEWS_FRAME again and
\* DESCENDANT_SUBVIEWS_FRAME, and view 4 was not visited
C28_Witness ==
    /\ lop.op = "update_subview_frames"
    /\ \E k \in 1..Len(lop.calls) : C28_Is(k, "set_layout", 2)
    /\ {SUBVIEWS_FRAME, DESCENDANT_SUBVIEWS_FRAME} \subseteq dirty[2]
    /\ SUBVIEWS_FRAME \in dirty[4]
    /\ \A k \in 1..Len(lop.calls) : ~C28_Is(k, "enter", 4)

(***************************************************************************)
(* More properties of the position-dispatch pass.                          *)
(***************************************************************************)
\* The views below view v
C29_Descendants(v) == {u \in Views : v \in Ancestors(layout, u)}

\* C29: when the position listener of a view is called during a
\* position-dispatch pass, the global_frame of the view and of each of its
\* ancestors is up to date; the listeners are called in pre-order, a view
\* before the views below it.
C29_GlobalFrameReadyAtCallback ==
    (lop.op = "flush_position_event" /\ lop.pre) =>
        \A k \in 1..Len(lop.calls) :
            /\ ({lop.calls[k]} \cup Ancestors(layout, lop.calls[k])) \subseteq lop.fresh[k]
            /\ \A j \in 1..Len(lop.calls) :
                  lop.calls[j] \in Ancestors(layout, lop.calls[k]) => j < k

\* The listener of view 2 was called while the global_frame of view 4 below
\* it was out of date, and the listener of view 4 was called after it
C29_Witness ==
    /\ lop.op = "flush_position_event" /\ lop.pre
    /\ \E k \in 1..Len(lop.calls) :
          /\ lop.calls[k] = 2
          /\ 4 \notin lop.fresh[k]
          /\ k < Len(lop.calls) /\ lop.calls[k + 1] = 4

(***************************************************************************)
(* More properties of set_subview_frame.                                   *)
(***************************************************************************)
\* The flags a set_subview_frame call that replaces the frame old by the
\* frame new adds to the subview, and to the active view
C30_SubviewFlags(old, new) ==
    (IF new # old THEN {POSITION_EVENT} ELSE {})
        \cup (IF BoxSize(new) # BoxSize(old) THEN {SUBVIEWS_FRAME} ELSE {})

C30_ActiveViewFlags(old, new) ==
    (IF new # old THEN {DESCENDANT_POSITION_EVENT} ELSE {})
        \cup (IF BoxSize(new) # BoxSize(old) THEN {DESCENDANT_SUBVIEWS_FRAME} ELSE {})

\* C30: set_subview_frame sets POSITION_EVENT on the subview and
\* DESCENDANT_POSITION_EVENT on the active view exactly when the frame
\* changes, SUBVIEWS_FRAME on the subview and DESCENDANT_SUBVIEWS_FRAME on
\* the active view exactly when the size changes; the identical frame
\* changes no flag of any view; the call clears no flag and always stores
\* the frame.
C30_SetSubviewFrameFlagRules ==
    [][lop'.op = "set_subview_frame" =>
          LET hview == lop'.view
              active_view == Superview(layout, hview)
              new == lop'.new_frame
              old == frame[hview]
          IN /\ frame' = [frame EXCEPT ![hview] = new]
             /\ dirty'[hview] = dirty[hview] \cup C30_SubviewFlags(old, new)
             /\ dirty'[active_view] =
                    dirty[active_view] \cup C30_ActiveViewFlags(old, new)
             /\ \A u \in Views \ {hview, active_view} : dirty'[u] = dirty[u]
             /\ new = old => dirty' = dirty]_vars

\* A call that moved a view without resizing it: POSITION_EVENT was set on
\* it and DESCENDANT_POSITION_EVENT on its superview, SUBVIEWS_FRAME and
\* DESCENDANT_SUBVIEWS_FRAME were not
C30_Witness ==
    /\ lop.op = "set_subview_frame" /\ lop.view = 4
    /\ lop.new_frame.min # lop.old_frame.min
    /\ BoxSize(lop.new_frame) = BoxSize(lop.old_frame)
    /\ frame[4] = lop.new_frame
    /\ lop.old_dirty = {}
    /\ dirty[4] = {POSITION_EVENT}
    /\ dirty[2] = {DESCENDANT_POSITION_EVENT}

(***************************************************************************)
(* The calls of one up-phase pass.                                         *)
(***************************************************************************)
\* The records of the pass for the subviews of the view of record e
C31_SubviewVisits(e) ==
    {k \in 1..Len(lop.visits) :
        \E j \in 1..Len(layout[e.view].subviews) :
            layout[e.view].subviews[j] = lop.visits[k].view}
C31_SubviewChanged(e) == \E k \in C31_SubviewVisits(e) : lop.visits[k].changed
C31_Recomputed(e) == \E k \in 1..Len(lop.calls) : lop.calls[k] = e.view

\* C31: every call of update_size_traits made in an up-phase pass returns
\* true exactly when it changed the cached SizeTraits of its view; a view
\* that carried only DESCENDANT_SIZE_TRAITS was recomputed exactly when one
\* of its subviews returned true; a view that carried neither flag was not
\* recomputed and none of its subviews was visited; and on return the view
\* carries neither SIZE_TRAITS nor DESCENDANT_SIZE_TRAITS.
C31_UpPhaseShortCircuit ==
    lop.op = "update_size_traits" =>
        \A i \in 1..Len(lop.visits) :
            LET e == lop.visits[i]
                f == e.dirty_in \cap {SIZE_TRAITS, DESCENDANT_SIZE_TRAITS}
            IN /\ e.changed <=> (e.new # e.old)
               /\ f = {DESCENDANT_SIZE_TRAITS}
                     => (C31_Recomputed(e) <=> C31_SubviewChanged(e))
               /\ f = {} => (~C31_Recomputed(e) /\ C31_SubviewVisits(e) = {})
               /\ e.dirty_out \cap {SIZE_TRAITS, DESCENDANT_SIZE_TRAITS} = {}

\* A pass in which a view carrying only DESCENDANT_SIZE_TRAITS was recomputed
\* and changed after a subview returned true, while another subview of it
\* was recomputed to the SizeTraits it had and returned false.
C31_Witness ==
    /\ lop.op = "update_size_traits"
    /\ \E i \in 1..Len(lop.visits) :
          LET e == lop.visits[i]
          IN /\ e.dirty_in = {DESCENDANT_SIZE_TRAITS}
             /\ C31_Recomputed(e) /\ C31_SubviewChanged(e) /\ e.changed
             /\ \E k \in C31_SubviewVisits(e) :
                   /\ C31_Recomputed(lop.visits[k])
                   /\ ~lop.visits[k].changed
                   /\ lop.visits[k].new = lop.visits[k].old

(***************************************************************************)
(* More properties of the down phase.                                      *)
(***************************************************************************)
\* A layout asked for its replacement during the pass
C32_Replaced == \E k \in 1..Len(lop.calls) : lop.calls[k].ev = "set_layout"

\* C32: in a down-phase pass a view does not carry DESCENDANT_SUBVIEWS_FRAME
\* any more when the call of its first subview begins, nor when the call of
\* any subview begins if no layout asked for its replacement in the
\* pass; and when update_subview_frames on the root has returned, no layout
\* asked for its replacement, and before the pass every view carrying
\* SUBVIEWS_FRAME or DESCENDANT_SUBVIEWS_FRAME had DESCENDANT_SUBVIEWS_FRAME on
\* all its ancestors, no view carries SUBVIEWS_FRAME or
\* DESCENDANT_SUBVIEWS_FRAME.
C32_DownPhaseCompletesInOnePass ==
    lop.op = "update_subview_frames" =>
        /\ \A k \in 1..Len(lop.calls) :
              LET e == lop.calls[k]
                  q == Superview(layout, e.view)
              IN (/\ e.ev = "enter" /\ q # None
                  /\ (~C32_Replaced \/ e.view = Head(layout[q].subviews)))
                     => DESCENDANT_SUBVIEWS_FRAME \notin e.all[q]
        /\ (lop.pre /\ ~C32_Replaced) =>
              \A v \in Views :
                  dirty[v] \cap {SUBVIEWS_FRAME, DESCENDANT_SUBVIEWS_FRAME} = {}

\* A pass without replacement that began with flags in order, in which view 2
\* carried no flag until the layout of the root resized it, and in which the
\* layout of view 2 then resized view 4 and view 4 was visited.
C32_Witness ==
    /\ lop.op = "update_subview_frames" /\ lop.pre /\ ~C32_Replaced
    /\ \E k \in 1..Len(lop.calls) :
          /\ C28_Is(k, "enter", 2)
          /\ SUBVIEWS_FRAME \in lop.calls[k].dirty
    /\ \E k \in 1..Len(lop.calls) :
          /\ C28_Is(k, "enter", 1)
          /\ lop.calls[k].all[2] \cap {SUBVIEWS_FRAME, DESCENDANT_SUBVIEWS_FRAME} = {}
    /\ \E k \in 1..Len(lop.calls) :
          /\ C28_Is(k, "enter", 4)
          /\ SUBVIEWS_FRAME \in lop.calls[k].dirty

(***************************************************************************)
(* The selective traversal of the position-dispatch pass.                  *)
(***************************************************************************)
\* View v carries DESCENDANT_POSITION_EVENT and not POSITION_EVENT
C33_DescendantOnly(v) ==
    DESCENDANT_POSITION_EVENT \in dirty[v] /\ POSITION_EVENT \notin dirty[v]

\* The pass leaves view v alone: no callback, the same global_frame
C33_Skipped(v) ==
    /\ \A k \in 1..Len(lop'.calls) : lop'.calls[k] # v
    /\ global_frame'[v] = global_frame[v]

\* What the pass does at a view v it reaches with only
\* DESCENDANT_POSITION_EVENT: it leaves v alone but for the flag it clears,
\* calls back the subviews carrying POSITION_EVENT, and leaves alone, flags
\* included, every subview carrying neither flag and all the views below it
C33_Selective(v) ==
    /\ C33_Skipped(v)
    /\ dirty'[v] = dirty[v] \ {DESCENDANT_POSITION_EVENT}
    /\ \A j \in 1..Len(layout[v].subviews) :
          LET u == layout[v].subviews[j]
          IN /\ POSITION_EVENT \in dirty[u]
                   => \E k \in 1..Len(lop'.calls) : lop'.calls[k] = u
             /\ dirty[u] \cap {POSITION_EVENT, DESCENDANT_POSITION_EVENT} = {}
                   => \A w \in {u} \cup C29_Descendants(u) :
                          C33_Skipped(w) /\ dirty'[w] = dirty[w]

\* C33 as stated: a flush_position_event pass on the root treats every view
\* that carries DESCENDANT_POSITION_EVENT and not POSITION_EVENT selectively.
C33_DescendantOnlyViewIsSkipped ==
    [][lop'.op = "flush_position_event" =>
          \A v \in Views : C33_DescendantOnly(v) => C33_Selective(v)]_vars

\* C33: a flush_position_event pass on the root treats selectively every
\* view that carries DESCENDANT_POSITION_EVENT and not POSITION_EVENT and
\* whose ancestors all do so too: the view is not called back and keeps its
\* global_frame, the flag is cleared, its subviews carrying POSITION_EVENT
\* are called back, and a subview carrying neither flag is left alone with
\* all the views below it. (Below a view carrying POSITION_EVENT every view
\* is called back and gets a new global_frame, whatever its flags.)
C33_SelectiveDispatch ==
    [][lop'.op = "flush_position_event" =>
          \A v \in Views :
              (/\ C33_DescendantOnly(v)
               /\ \A a \in Ancestors(layout, v) : C33_DescendantOnly(a))
                  => C33_Selective(v)]_vars

\* A pass on the tree of InitialLayout in which the root carried only
\* DESCENDANT_POSITION_EVENT, view 2 carried POSITION_EVENT and was called
\* back, and view 3 carried no flag and was not called back
C33_Witness ==
    /\ lop.op = "flush_position_event"
    /\ layout = InitialLayout
    /\ Root \in lop.descendant_flagged \ lop.flagged
    /\ 2 \in lop.flagged
    /\ 3 \notin lop.flagged \cup lop.descendant_flagged
    /\ \E k \in 1..Len(lop.calls) : lop.calls[k] = 2
    /\ \A k \in 1..Len(lop.calls) : lop.calls[k] \notin {Root, 3}

\* A pass on the tree of ChainLayout in which view 3 carried only
\* DESCENDANT_POSITION_EVENT below view 2, which carried POSITION_EVENT:
\* view 3 was called back
C33_CalledBackBelowAMovedView ==
    /\ lop.op = "flush_position_event"
    /\ layout = ChainLayout
    /\ 2 \in lop.flagged
    /\ 3 \in lop.descendant_flagged \ lop.flagged
    /\ \E k \in 1..Len(lop.calls) : lop.calls[k] = 3

\* Every view carrying POSITION_EVENT or DESCENDANT_POSITION_EVENT has one of
\* the two flags on each of its ancestors
C34_Reachable ==
    \A v \in Views :
        dirty[v] \cap {POSITION_EVENT, DESCENDANT_POSITION_EVENT} # {}
            => \A a \in Ancestors(layout, v) :
                   dirty[a] \cap {POSITION_EVENT, DESCENDANT_POSITION_EVENT} # {}

\* C34: a flush_position_event pass on the root changes no local frame and
\* no dirty flag other than POSITION_EVENT and DESCENDANT_POSITION_EVENT; and
\* when before the pass every view carrying one of the two flags had one of
\* them on each of its ancestors, no view carries either flag after it. (The
\* listeners of the model set no flags.)
C34_DispatchClearsPositionFlags ==
    [][lop'.op = "flush_position_event" =>
          /\ frame' = frame
          /\ \A v \in Views :
                dirty'[v] \ {POSITION_EVENT, DESCENDANT_POSITION_EVENT}
                    = dirty[v] \ {POSITION_EVENT, DESCENDANT_POSITION_EVENT}
          /\ C34_Reachable =>
                \A v \in Views :
                    dirty'[v] \cap {POSITION_EVENT, DESCENDANT_POSITION_EVENT} = {}]_vars

\* A pass before which view 2 carried both flags, view 4 POSITION_EVENT and
\* the root DESCENDANT_POSITION_EVENT, and after which no view carries either
\* flag while a view still carries SUBVIEWS_FRAME
C34_Witness ==
    /\ lop.op = "flush_position_event"
    /\ {2, 4} \subseteq lop.flagged
    /\ {Root, 2} \subseteq lop.descendant_flagged
    /\ \A v \in Views : dirty[v] \cap {POSITION_EVENT, DESCENDANT_POSITION_EVENT} = {}
    /\ \E v \in Views : SUBVIEWS_FRAME \in dirty[v]

\* C35: after update_subview_frames on the root, every view whose frame the
\* pass changed carries POSITION_EVENT, and every view that carries
\* POSITION_EVENT or DESCENDANT_POSITION_EVENT and did not before the pass
\* has DESCENDANT_POSITION_EVENT on all its ancestors, whether or not a
\* layout asked for its replacement after it had set frames of subviews.
C35_MovedViewsReachableByDispatch ==
    [][lop'.op = "update_subview_frames" =>
          \A v \in Views :
              /\ frame'[v] # frame[v] => POSITION_EVENT \in dirty'[v]
              /\ (\/ frame'[v] # frame[v]
                  \/ (dirty'[v] \cap {POSITION_EVENT, DESCENDANT_POSITION_EVENT})
                         \ dirty[v] # {})
                    => \A a \in Ancestors(layout, v) :
                           DESCENDANT_POSITION_EVENT \in dirty'[a]]_vars

\* A pass that began with no POSITION_EVENT or DESCENDANT_POSITION_EVENT on
\* any view, in which the layout of view 2 moved view 4 and then asked for
\* its replacement: view 4 carries POSITION_EVENT, and view 2 and the root
\* carry DESCENDANT_POSITION_EVENT
C35_Witness ==
    /\ lop.op = "update_subview_frames"
    /\ \E k \in 1..Len(lop.calls) : C28_Is(k, "set_layout", 2)
    /\ \A k \in 1..Len(lop.calls) : ~C28_Is(k, "arrange", Root)
    /\ \A v \in Views :
          lop.calls[1].all[v] \cap {POSITION_EVENT, DESCENDANT_POSITION_EVENT} = {}
    /\ POSITION_EVENT \in dirty[4]
    /\ DESCENDANT_POSITION_EVENT \in dirty[2]
    /\ DESCENDANT_POSITION_EVENT \in dirty[Root]

\* The entry of the record at which the call of view v began
C36_Enter(v) == CHOOSE k \in 1..Len(lop.calls) : C28_Is(k, "enter", v)

\* C36: in one down-phase pass every view is visited at most once and
\* Layout::arrange is invoked at most once on it, only if it carried
\* SUBVIEWS_FRAME when its call began, which it carried before the pass or
\* got from the arrange of its superview earlier in the pass; a view that
\* did not carry SUBVIEWS_FRAME when its call began is not arranged.
C36_ArrangeAtMostOncePerFlaggedView ==
    lop.op = "update_subview_frames" =>
        \A v \in Views :
            LET enters == {k \in 1..Len(lop.calls) : C28_Is(k, "enter", v)}
                arranges == {k \in 1..Len(lop.calls) : C28_Is(k, "arrange", v)}
            IN /\ Cardinality(enters) <= 1
               /\ Cardinality(arranges) <= 1
               /\ arranges # {} =>
                     /\ enters # {}
                     /\ SUBVIEWS_FRAME \in lop.calls[C36_Enter(v)].dirty
                     /\ \/ SUBVIEWS_FRAME \in lop.calls[1].all[v]
                        \/ \E j \in 1..C36_Enter(v) :
                              C28_Is(j, "arrange", Superview(layout, v))
               /\ (enters # {} /\ SUBVIEWS_FRAME \notin lop.calls[C36_Enter(v)].dirty)
                     => arranges = {}

\* A pass in which the root, carrying only DESCENDANT_SUBVIEWS_FRAME, was
\* visited and not arranged, and views 2 and 4, carrying SUBVIEWS_FRAME, were
\* each arranged once, view 4 after the layout of view 2 had resized it
C36_Witness ==
    /\ lop.op = "update_subview_frames"
    /\ lop.calls[1].dirty \cap {SUBVIEWS_FRAME, DESCENDANT_SUBVIEWS_FRAME}
           = {DESCENDANT_SUBVIEWS_FRAME}
    /\ \A k \in 1..Len(lop.calls) : ~C28_Is(k, "arrange", Root)
    /\ SUBVIEWS_FRAME \in lop.calls[1].all[2]
    /\ \E k \in 1..Len(lop.calls) : C28_Is(k, "arrange", 2)
    /\ \E k \in 1..Len(lop.calls) : C28_Is(k, "arrange", 4)
    /\ BoxSize(frame[4]) # BoxSize(Box2(<<0, 0>>, <<0, 0>>))

(***************************************************************************)
(* More properties of the bitmap cache.                                    *)
(***************************************************************************)
\* C37: in every state reached by new_bmp lookups (nested ones included),
\* scale registrations and releases, and handle drops, no two CacheBmps have
\* the same CacheImg and the same scale.
C37_OneBmpPerImgAndScale ==
    \A p, q \in DOMAIN cache.bmps :
        (cache.bmps[p].img = cache.bmps[q].img
            /\ cache.bmps[p].dpi_scale = cache.bmps[q].dpi_scale) => p = q

\* A nested lookup has just inserted a bitmap while the rasterization that
\* made it is still running, and the cache holds bitmaps of two images and
\* of two scales
C37_Witness ==
    /\ last.op = "new_bmp_end"
    /\ stack # <<>>
    /\ \E p \in DOMAIN cache.bmps : cache.bmps[p].bmp = last.bmp
    /\ Cardinality(DOMAIN cache.bmps) >= 3
    /\ \E p, q \in DOMAIN cache.bmps : cache.bmps[p].img # cache.bmps[q].img
    /\ \E p, q \in DOMAIN cache.bmps :
          cache.bmps[p].dpi_scale # cache.bmps[q].dpi_scale

\* The CacheBmps the step adds
C38_Added == {p \in DOMAIN cache'.bmps : p \notin DOMAIN cache.bmps}

\* The return of a rasterization: the bitmap is returned; it is inserted for
\* the image and the scale of the lookup exactly when the scale has a
\* reference at that moment, whatever it had when the lookup began.
C38_Step ==
    last'.op = "new_bmp_end" =>
        LET f == stack[Len(stack)]
            has_ref == \E k \in 1..Len(cache.dpi_scales) :
                              /\ cache.dpi_scales[k].dpi_scale = f.dpi_scale
                              /\ cache.dpi_scales[k].ref_count >= 1
        IN /\ last'.bmp = Rasterize(f.img, DpiScale_value(f.dpi_scale))
           /\ has_ref =>
                 /\ Cardinality(C38_Added) = 1
                 /\ \A p \in C38_Added :
                       cache'.bmps[p] = [img |-> f.img_ptr, dpi_scale |-> f.dpi_scale,
                                         bmp |-> last'.bmp]
           /\ ~has_ref => cache' = cache

\* No CacheBmp is keyed by a scale without a reference
C38_NoBmpOfUnregisteredScale ==
    \A p \in DOMAIN cache.bmps :
        \E k \in 1..Len(cache.dpi_scales) :
            /\ cache.dpi_scales[k].dpi_scale = cache.bmps[p].dpi_scale
            /\ cache.dpi_scales[k].ref_count >= 1

\* C38: whether new_bmp caches the bitmap it rasterized is decided by the
\* registration of the scale when the rasterization returns, not when the
\* lookup began: released to zero meanwhile, the bitmap is returned and not
\* inserted; registered meanwhile, it is inserted; and no CacheBmp is ever
\* keyed by an unregistered scale.
C38_CachingDecidedAfterRasterization ==
    []C38_NoBmpOfUnregisteredScale /\ [][C38_Step]_vars

\* A lookup that began on a registered scale whose last reference was
\* released during the rasterization: the bitmap is not in the cache
C38_Witness ==
    /\ last.op = "new_bmp_end"
    /\ last.reg_begin /\ ~last.reg_end
    /\ last.bmp # NoBmp
    /\ \A p \in DOMAIN cache.bmps : cache.bmps[p].bmp # last.bmp

(***************************************************************************)
(* The scale references of windows over time.                              *)
(***************************************************************************)
\* The DpiScale values windows can have
C39_Scales == {DpiScale_new(x).bits : x \in {y \in WndScaleInputs : DpiScale_new(y).ok}}

\* In every state the ref_count of a scale is the number of open windows of
\* the scale plus the number of destroyed windows of the scale whose release
\* task has not run; with no task pending it is the number of open windows.
C39_Counted ==
    panic = "" =>
        \A s \in C39_Scales :
            /\ RefCount(cache, s) = Cardinality(C25_OpenWnds(s))
                                    + Cardinality(C25_PendingReleases(s))
            /\ wnd_tasks = <<>> => RefCount(cache, s) = Cardinality(C25_OpenWnds(s))

\* The steps: the destruction of a window leaves the cache as it is and
\* enqueues one task for the scale the window had; a task releases one
\* reference of its scale, and finds it; a notification that leaves the
\* DpiScale of the window as it is leaves the cache as it is, and one that
\* changes it adds the reference of the new scale and then releases the old.
C39_Step ==
    /\ last'.op = "wnd_close" =>
          /\ cache' = cache
          /\ wnd_tasks' = Append(wnd_tasks, wnds[last'.wnd].state)
          /\ last'.dpi_scale = DpiScale_new(wnds[last'.wnd].dpi_scale).bits
    /\ last'.op = "wnd_release_task" =>
          /\ panic' = ""
          /\ wnd_tasks' = Tail(wnd_tasks)
          /\ \A s \in C39_Scales :
                RefCount(cache', s)
                    = RefCount(cache, s) - (IF s = Head(wnd_tasks) THEN 1 ELSE 0)
    /\ (last'.op = "dpi_scale_changed" /\ panic' = "") =>
          LET new_dpi_scale == DpiScale_new(last'.x).bits
              old == DpiScale_new(wnds[last'.wnd].dpi_scale).bits
          IN IF new_dpi_scale = old
             THEN cache' = cache
             ELSE /\ cache' = dpi_scale_release(
                                  dpi_scale_add_ref(cache, new_dpi_scale), old)
                  /\ RefCount(cache', new_dpi_scale) = RefCount(cache, new_dpi_scale) + 1
                  /\ RefCount(cache', old) = RefCount(cache, old) - 1

\* A pending release task is run
C39_PendingReleaseRuns ==
    (wnd_tasks # <<>> /\ last.op # "wnd_release_task")
        ~> (last.op = "wnd_release_task" \/ panic # "")

\* C39: the destruction of a window does not change the cache but enqueues
\* a main-thread task, which later releases the scale the window had when
\* it was destroyed; the ref_count of every scale is the number of open
\* windows of the scale plus the number of pending release tasks of the
\* scale, and the number of open windows once the tasks have run; a
\* notification with an unchanged scale changes no ref_count, one with a
\* changed scale adds the new reference before it releases the old.
C39_CloseReleasesAsynchronously ==
    []C39_Counted /\ [][C39_Step]_vars /\ C39_PendingReleaseRuns

\* The last pending release task has just run for a scale of which a window
\* is still open, while windows of the two other scales are open
C39_Witness ==
    /\ last.op = "wnd_release_task" /\ panic = ""
    /\ wnd_tasks = <<>>
    /\ Cardinality(C25_OpenWnds(last.dpi_scale)) = 1
    /\ RefCount(cache, last.dpi_scale) = 1
    /\ \E s \in C39_Scales : s # last.dpi_scale /\ RefCount(cache, s) = 1

(***************************************************************************)
(* The order of the closures of invoke_on_update.                          *)
(***************************************************************************)
\* The closures are registered in the order of their numbers. In every
\* state the queue holds registered closures that have not run, each once
\* and in the order of registration; the closure being executed is not in
\* the queue; and a closure that has run was registered, as was every
\* closure registered before it, which has run too.
C40_QueueInOrder ==
    /\ \A j, k \in 1..Len(dispatches) : j < k => dispatches[j] < dispatches[k]
    /\ \A k \in 1..Len(dispatches) :
          registered[dispatches[k]] # 0 /\ ran[dispatches[k]] = 0
    /\ running # None => \A k \in 1..Len(dispatches) : dispatches[k] # running
    /\ \A f, g \in Closures :
          (f < g /\ ran[g] # 0) => (registered[f] # 0 /\ ran[f] # 0)

\* The drain calls the closure at the front of the queue, which has not run
\* before and is taken off the queue by the same step, after every closure
\* registered before it has run; and what has run is never run again.
C40_Step ==
    /\ (mode = "drain" /\ mode' = "closure") =>
          /\ running' = Head(dispatches)
          /\ dispatches' = Tail(dispatches)
          /\ ran[running'] = 0 /\ ran'[running'] # 0
          /\ \A g \in Closures : g < running' => ran[g] # 0
          /\ \A g \in Closures : g > running' => ran[g] = 0
    /\ \A f \in Closures : ran[f] # 0 => ran'[f] = ran[f]
    /\ \A f \in Closures :
          (ran[f] = 0 /\ ran'[f] # 0) => (mode = "drain" /\ running' = f)

\* A queued closure is run and is then no longer in the queue
C40_QueuedClosureRuns ==
    \A f \in Closures :
        (\E k \in 1..Len(dispatches) : dispatches[k] = f)
            ~> (ran[f] # 0 /\ \A k \in 1..Len(dispatches) : dispatches[k] # f)

\* C40: the closures passed to invoke_on_update are executed in the order
\* of their registration, each exactly once, and each is taken off the
\* queue before it is invoked, so that a closure may call invoke_on_update
\* itself.
C40_FifoExactlyOnce ==
    []C40_QueueInOrder /\ [][C40_Step]_vars /\ C40_QueuedClosureRuns

\* The drain executes closure 2 after closure 1; closure 2 has registered
\* closure 3 from inside the drain, and the queue holds closures 3 and 4
C40_Witness ==
    /\ mode = "closure" /\ running = 2
    /\ ran[1] # 0 /\ ran[2] = ran[1]
    /\ registered[3] = ran[2]
    /\ dispatches = <<3, 4>>

====
